---- MODULE Spec2Model ----
(***************************************************************************)
(* Model of the tick pipeline of the Touch Edge System server:             *)
(*   - TickStore        (tickStore.js)          bounded ordered tick buffer *)
(*   - candleAggregator (candleAggregator.js)   time-bucketed OHLC candles  *)
(*   - the live tick handler of the server entry point (index.js)          *)
(*   - VolatilityEngine (probabilityEngine.js)  rolling sigma, ratio, trend *)
(*   - ProbabilityEngine (probabilityEngine.js) touch probability estimate  *)
(* Prices are positive integers (quotes scaled to the instrument's pip),   *)
(* epochs are integer seconds.                                             *)
(***************************************************************************)
EXTENDS Integers, Sequences, FiniteSets, TLC

VARIABLES
    ticks,          \* TickStore.ticks: sequence of [epoch, quote]
    accepted,       \* history: the ticks addTick stored since the buffer was last empty
    activeCandles,  \* index.js activeCandles: label -> candle (a label may be absent)
    closed,         \* the map returned by the last processTick call
    emitted,        \* history: label -> sequence of all candles processTick returned
    skipped,        \* history: label -> openTimes of buckets a tick jumped over
    fed,            \* history: the ticks handed to processTick, in call order
    seed,           \* <<>> when activeCandles started as {}, <<e>> when seeded at epoch e
    candle,         \* a single candle object (makeTCandle / updateTCandle)
    prices,         \* history: the prices given to updateTCandle since makeTCandle
    tickCount,      \* index.js tickCount
    lastTickTime,   \* index.js lastTickTime
    gapEvents,      \* index.js gapEvents
    historySnapshot,\* index.js historySnapshot: null (an empty map) or [ticks, candles]
    connected,      \* TRUE once derivClient.connect() was called after the pre-fill
    call,           \* the last operation and its arguments
    volEngine,      \* the VolatilityEngine object: a record of its fields
    updates,        \* history: per update() call, the short sigma it computed or NULL
    snapshot,       \* << >>, or << the object the last getSnapshot() call returned >>
    returned,       \* history: the values getSnapshot() returned since the last update()
    clock,          \* the epoch of the last tick the feed delivered
    run,            \* history: [moves, clears], the price moves and clear() calls so far
    store,          \* the historical sample store (external): [state, rows]
    probEngine,     \* the ProbabilityEngine object: [db, hasEmpirical]
    warned,         \* the number of console.warn calls of the ProbabilityEngine
    built,          \* history: the store's state when the ProbabilityEngine was constructed
    uiConfig,       \* index.js uiConfig: [barrier, payoutROI, direction]
    client,         \* a dashboard client: [connected, candles], candles the (label, time) sent to it
    derivClient,    \* the DerivClient object with its socket and reconnect timer
    fetch           \* a fetchHistory() call in flight: [page, allTicks, done, result]

vars == << ticks, accepted, activeCandles, closed, emitted, skipped, fed, seed,
           candle, prices, tickCount, lastTickTime, gapEvents, historySnapshot,
           connected, call, volEngine, updates, snapshot, returned, clock, run,
           store, probEngine, warned, built, uiConfig, client, derivClient, fetch >>

storeVars  == << ticks, accepted >>
candleVars == << activeCandles, closed, emitted, skipped, fed, seed >>
bucketVars == << candle, prices >>
serverVars == << tickCount, lastTickTime, gapEvents, historySnapshot, connected >>
volVars    == << volEngine, updates, snapshot, returned, clock, run >>
probVars   == << store, probEngine, warned, built >>
uiVars     == << uiConfig, client >>
upstreamVars == << derivClient, fetch >>

(***************************************************************************)
(* Bounds of the model and input domains.                                  *)
(***************************************************************************)
MaxTicks == 3        \* processTick calls on the aggregator on its own
MaxLive == 2         \* live ticks the server handles
MaxHistory == 2      \* ticks the startup pre-fill returns
MaxSize == 5         \* TickStore capacity (constructor argument maxSize)
MaxStoreEpoch == 7   \* epochs offered to a TickStore on its own: 1..MaxStoreEpoch
MaxUpdates == 3      \* updateTCandle calls on one candle
MaxPrice == 3        \* prices offered to a single candle: 1..MaxPrice
MaxTf == 6           \* timeframe durations offered to makeTCandle: 1..MaxTf
MaxNow == 13         \* epochs offered to makeTCandle: 0..MaxNow
MaxVolTicks == 5     \* ticks fed to a VolatilityEngine's buffer
MaxVolCalls == 3     \* update() calls on that engine
MaxTrendCalls == 64  \* ticks, each followed by update(), of a long run
MaxMoves == 1        \* ticks of a long run whose quote differs from the one before
MaxClears == 1       \* clear() calls of a long run
MaxProbTicks == 3    \* ticks fed to the engines behind estimate()
MaxAnalyticsTicks == 3  \* live ticks of a dashboard run
MICRO_WINDOW == 4    \* the 60-tick window of the MicroStructureEngine, scaled down
HistoryPages == 2    \* the pages argument of fetchHistory, scaled down from 3
MaxPageEpoch == 3    \* epochs of the ticks a history page holds: 1..MaxPageEpoch

\* The engine's configuration (config.js), scaled down: the windows are tick
\* counts, 10/30/60/120/300 with short 30 and baseline 300 as deployed, and the
\* momentum window is 10.  The engine reads them from its config argument.
VOL_SHORT_WINDOW == 2
VOL_BASELINE_WINDOW == 4
MOMENTUM_WINDOW == 3
VOL_WINDOWS == << 1, VOL_SHORT_WINDOW, VOL_BASELINE_WINDOW >>
\* update() compares with the entry 31 from the end, and keeps 60 entries
TREND_SPAN == 31
TREND_HISTORY_MAX == 60
\* the constructor enables the empirical source on `count.c > 100`
EMPIRICAL_MIN == 100
WARMUP_TICKS == 2    \* config.WARMUP_TICKS, scaled down from 300
LOW_SAMPLE == 500    \* edgeCalculator.js: sampleSize < 500

\* Quotes of the ticks fed to the engine: powers of two
VolQuotes == {1, 2, 4}

\* Epochs of the ticks offered to the aggregator: inside the first 5s bucket (3, 4),
\* exactly on its closeTime (5), two 5s buckets later and past the first 10s
\* boundary (12), and exactly on the first closeTime of the 5m timeframe, which
\* is a boundary of every timeframe (300).
Epochs == {3, 4, 5, 12, 300}
Prices == {1, 2}
\* Epochs at which the active candles are seeded (index.js: the wall clock).
SeedEpochs == {0, 12}

(***************************************************************************)
(* JavaScript values.                                                      *)
(***************************************************************************)
null == -1
Infinity == 1000000
NegInfinity == 0 - Infinity

Last(s) == s[Len(s)]
EmptyMap == [x \in {} |-> x]    \* the object {}

\* TLC hands operator arguments over unevaluated; a loop tests Forced(v) on each
\* iteration's result so that it is computed before the next iteration starts.
Forced(v) == v = v

(***************************************************************************)
(* candleAggregator.js                                                     *)
(***************************************************************************)
TIMEFRAMES ==
    << [label |-> "5s",  secs |-> 5],
       [label |-> "10s", secs |-> 10],
       [label |-> "15s", secs |-> 15],
       [label |-> "30s", secs |-> 30],
       [label |-> "1m",  secs |-> 60],
       [label |-> "2m",  secs |-> 120],
       [label |-> "5m",  secs |-> 300] >>

LabelsOf(tfs) == { tfs[i].label : i \in 1..Len(tfs) }
Labels == LabelsOf(TIMEFRAMES)
SecsOf(lab) == TIMEFRAMES[CHOOSE i \in 1..Len(TIMEFRAMES) : TIMEFRAMES[i].label = lab].secs

\* Math.floor(nowEpoch / tfSec) * tfSec
BucketTime(epoch, tfSec) == (epoch \div tfSec) * tfSec

\* makeTCandle with Math.round in place of Math.floor
makeTCandle_Rounded(tfSec, nowEpoch) ==
    LET openTime == ((2 * nowEpoch + tfSec) \div (2 * tfSec)) * tfSec
    IN  [openTime |-> openTime, closeTime |-> openTime + tfSec,
         o |-> null, h |-> NegInfinity, l |-> Infinity, c |-> null]

makeTCandle(tfSec, nowEpoch) ==
    LET openTime == BucketTime(nowEpoch, tfSec)
    IN  [openTime |-> openTime, closeTime |-> openTime + tfSec,
         o |-> null, h |-> NegInfinity, l |-> Infinity, c |-> null]

\* updateTCandle without the `price < candle.l` line
updateTCandle_NoLow(cnd, price) ==
    LET c1 == IF cnd.o = null THEN [cnd EXCEPT !.o = price, !.l = price] ELSE cnd
        c2 == IF price > c1.h THEN [c1 EXCEPT !.h = price] ELSE c1
    IN  [c2 EXCEPT !.c = price]

updateTCandle(cnd, price) ==
    LET c1 == IF cnd.o = null THEN [cnd EXCEPT !.o = price] ELSE cnd
        c2 == IF price > c1.h THEN [c1 EXCEPT !.h = price] ELSE c1
        c3 == IF price < c2.l THEN [c2 EXCEPT !.l = price] ELSE c2
    IN  [c3 EXCEPT !.c = price]

\* { time, open, high, low, close } built from a candle or a builder
ClosedCandle(cnd) ==
    [time |-> cnd.openTime, open |-> cnd.o, high |-> cnd.h, low |-> cnd.l, close |-> cnd.c]

\* the loop body with `epoch > candle.closeTime`: a tick on the boundary stays
processTickTF_StrictBoundary(st, tf, price, epoch) ==
    LET label == tf.label
        ac1 == IF label \notin DOMAIN st.activeCandles
               THEN st.activeCandles @@ (label :> makeTCandle(tf.secs, epoch))
               ELSE st.activeCandles
        cnd == ac1[label]
        closes == epoch > cnd.closeTime
        closed1 == IF closes /\ cnd.o # null
                   THEN (label :> ClosedCandle(cnd)) @@ st.closed
                   ELSE st.closed
        ac2 == IF closes
               THEN [ac1 EXCEPT ![label] = makeTCandle(tf.secs, epoch)]
               ELSE ac1
    IN  [closed |-> closed1,
         activeCandles |-> [ac2 EXCEPT ![label] = updateTCandle(ac2[label], price)]]

\* the loop body with updateTCandle called before the close check: the closing
\* tick's price goes into the candle it closes
processTickTF_UpdatesFirst(st, tf, price, epoch) ==
    LET label == tf.label
        ac1 == IF label \notin DOMAIN st.activeCandles
               THEN st.activeCandles @@ (label :> makeTCandle(tf.secs, epoch))
               ELSE st.activeCandles
        cnd == updateTCandle(ac1[label], price)
        closes == epoch >= cnd.closeTime
        closed1 == IF closes /\ cnd.o # null
                   THEN (label :> ClosedCandle(cnd)) @@ st.closed
                   ELSE st.closed
    IN  [closed |-> closed1,
         activeCandles |-> [ac1 EXCEPT ![label] =
                              IF closes
                              THEN updateTCandle(makeTCandle(tf.secs, epoch), price)
                              ELSE cnd]]

\* the loop body without the `candle.o !== null` check
processTickTF_EmitsEmpty(st, tf, price, epoch) ==
    LET label == tf.label
        ac1 == IF label \notin DOMAIN st.activeCandles
               THEN st.activeCandles @@ (label :> makeTCandle(tf.secs, epoch))
               ELSE st.activeCandles
        cnd == ac1[label]
        closes == epoch >= cnd.closeTime
        closed1 == IF closes
                   THEN (label :> ClosedCandle(cnd)) @@ st.closed
                   ELSE st.closed
        ac2 == IF closes
               THEN [ac1 EXCEPT ![label] = makeTCandle(tf.secs, epoch)]
               ELSE ac1
    IN  [closed |-> closed1,
         activeCandles |-> [ac2 EXCEPT ![label] = updateTCandle(ac2[label], price)]]

\* the loop body advancing to the bucket after the closed one, makeTCandle(secs,
\* candle.closeTime), instead of the bucket of the tick
processTickTF_NextBucket(st, tf, price, epoch) ==
    LET label == tf.label
        ac1 == IF label \notin DOMAIN st.activeCandles
               THEN st.activeCandles @@ (label :> makeTCandle(tf.secs, epoch))
               ELSE st.activeCandles
        cnd == ac1[label]
        closes == epoch >= cnd.closeTime
        closed1 == IF closes /\ cnd.o # null
                   THEN (label :> ClosedCandle(cnd)) @@ st.closed
                   ELSE st.closed
        ac2 == IF closes
               THEN [ac1 EXCEPT ![label] = makeTCandle(tf.secs, cnd.closeTime)]
               ELSE ac1
    IN  [closed |-> closed1,
         activeCandles |-> [ac2 EXCEPT ![label] = updateTCandle(ac2[label], price)]]

\* the loop body with one close decision shared by the timeframes: once a
\* timeframe closed in this call, the ones iterated after it close too
processTickTF_SharedClose(st, tf, price, epoch) ==
    LET label == tf.label
        ac1 == IF label \notin DOMAIN st.activeCandles
               THEN st.activeCandles @@ (label :> makeTCandle(tf.secs, epoch))
               ELSE st.activeCandles
        cnd == ac1[label]
        closes == epoch >= cnd.closeTime \/ st.closed # EmptyMap
        closed1 == IF closes /\ cnd.o # null
                   THEN (label :> ClosedCandle(cnd)) @@ st.closed
                   ELSE st.closed
        ac2 == IF closes
               THEN [ac1 EXCEPT ![label] = makeTCandle(tf.secs, epoch)]
               ELSE ac1
    IN  [closed |-> closed1,
         activeCandles |-> [ac2 EXCEPT ![label] = updateTCandle(ac2[label], price)]]

\* the loop body folding the tick only into a candle that stays open, leaving the
\* candle opened on a close without its first tick
processTickTF_UpdatesOpenOnly(st, tf, price, epoch) ==
    LET label == tf.label
        ac1 == IF label \notin DOMAIN st.activeCandles
               THEN st.activeCandles @@ (label :> makeTCandle(tf.secs, epoch))
               ELSE st.activeCandles
        cnd == ac1[label]
        closes == epoch >= cnd.closeTime
        closed1 == IF closes /\ cnd.o # null
                   THEN (label :> ClosedCandle(cnd)) @@ st.closed
                   ELSE st.closed
    IN  [closed |-> closed1,
         activeCandles |-> [ac1 EXCEPT ![label] =
                              IF closes
                              THEN makeTCandle(tf.secs, epoch)
                              ELSE updateTCandle(cnd, price)]]

\* the loop body closing the candle whenever the tick lies in another bucket, as
\* makeHistoryCandles does: a late tick reopens an earlier bucket
processTickTF_Rebuckets(st, tf, price, epoch) ==
    LET label == tf.label
        ac1 == IF label \notin DOMAIN st.activeCandles
               THEN st.activeCandles @@ (label :> makeTCandle(tf.secs, epoch))
               ELSE st.activeCandles
        cnd == ac1[label]
        closes == BucketTime(epoch, tf.secs) # cnd.openTime
        closed1 == IF closes /\ cnd.o # null
                   THEN (label :> ClosedCandle(cnd)) @@ st.closed
                   ELSE st.closed
        ac2 == IF closes
               THEN [ac1 EXCEPT ![label] = makeTCandle(tf.secs, epoch)]
               ELSE ac1
    IN  [closed |-> closed1,
         activeCandles |-> [ac2 EXCEPT ![label] = updateTCandle(ac2[label], price)]]

\* One iteration of processTick's loop, for the timeframe tf.
\* st = [closed, activeCandles] is the state the loop carries.
processTickTF(st, tf, price, epoch) ==
    LET label == tf.label
        ac1 == IF label \notin DOMAIN st.activeCandles
               THEN st.activeCandles @@ (label :> makeTCandle(tf.secs, epoch))
               ELSE st.activeCandles
        cnd == ac1[label]
        closes == epoch >= cnd.closeTime
        closed1 == IF closes /\ cnd.o # null
                   THEN (label :> ClosedCandle(cnd)) @@ st.closed
                   ELSE st.closed
        ac2 == IF closes
               THEN [ac1 EXCEPT ![label] = makeTCandle(tf.secs, epoch)]
               ELSE ac1
    IN  [closed |-> closed1,
         activeCandles |-> [ac2 EXCEPT ![label] = updateTCandle(ac2[label], price)]]

RECURSIVE processTickLoop(_, _, _, _, _)
processTickLoop(st, tfs, i, price, epoch) ==
    IF i > Len(tfs) THEN st
    ELSE LET next == processTickTF(st, tfs[i], price, epoch)
         IN  IF Forced(next) THEN processTickLoop(next, tfs, i + 1, price, epoch) ELSE st

\* processTick with the timeframe table it iterates as a parameter.
processTickOver(tfs, price, epoch, ac) ==
    processTickLoop([closed |-> EmptyMap, activeCandles |-> ac], tfs, 1, price, epoch)

processTick(price, epoch, ac) == processTickOver(TIMEFRAMES, price, epoch, ac)

\* One iteration of makeHistoryCandles' inner loop, for the tick t and timeframe tf.
\* st = [builders, result]; a label absent from builders is a null builder.
makeHistoryTF(st, tf, t) ==
    LET label == tf.label
        bucketTime == BucketTime(t.epoch, tf.secs)
        has == label \in DOMAIN st.builders
        fresh == ~has \/ st.builders[label].openTime # bucketTime
        result1 == IF fresh /\ has /\ st.builders[label].o # null
                   THEN [st.result EXCEPT ![label] = Append(@, ClosedCandle(st.builders[label]))]
                   ELSE st.result
        b0 == IF fresh
              THEN [openTime |-> bucketTime, o |-> null, h |-> NegInfinity,
                    l |-> Infinity, c |-> null]
              ELSE st.builders[label]
        b1 == IF b0.o = null THEN [b0 EXCEPT !.o = t.quote] ELSE b0
        b2 == IF t.quote > b1.h THEN [b1 EXCEPT !.h = t.quote] ELSE b1
        b3 == IF t.quote < b2.l THEN [b2 EXCEPT !.l = t.quote] ELSE b2
        b4 == [b3 EXCEPT !.c = t.quote]
    IN  [builders |-> (label :> b4) @@ st.builders, result |-> result1]

RECURSIVE makeHistoryInner(_, _, _, _)
makeHistoryInner(st, tfs, i, t) ==
    IF i > Len(tfs) THEN st
    ELSE LET next == makeHistoryTF(st, tfs[i], t)
         IN  IF Forced(next) THEN makeHistoryInner(next, tfs, i + 1, t) ELSE st

RECURSIVE makeHistoryOuter(_, _, _)
makeHistoryOuter(st, ts, k) ==
    IF k > Len(ts) THEN st
    ELSE LET next == makeHistoryInner(st, TIMEFRAMES, 1, ts[k])
         IN  IF Forced(next) THEN makeHistoryOuter(next, ts, k + 1) ELSE st

makeHistoryCandles(ts) ==
    makeHistoryOuter([builders |-> EmptyMap, result |-> [lab \in Labels |-> << >>]], ts, 1).result

(***************************************************************************)
(* tickStore.js                                                            *)
(***************************************************************************)
\* the guard with `<` in place of `<=`: a duplicate epoch is stored
Accepts_Duplicates(tks, epoch) == ~(Len(tks) > 0 /\ epoch < Last(tks).epoch)

\* whether addTick stores the tick (its guard does not return early)
Accepts(tks, epoch) == ~(Len(tks) > 0 /\ epoch <= Last(tks).epoch)

\* addTick with `>=` in place of `>` in the size check
addTick_EvictsEarly(tks, epoch, quote) ==
    IF ~Accepts(tks, epoch)
    THEN tks
    ELSE LET pushed == Append(tks, [epoch |-> epoch, quote |-> quote])
         IN  IF Len(pushed) >= MaxSize THEN Tail(pushed) ELSE pushed

\* addTick that, on a duplicate epoch, stores the new quote over the old one
addTick_OverwritesLast(tks, epoch, quote) ==
    IF Len(tks) > 0 /\ epoch = Last(tks).epoch
    THEN [tks EXCEPT ![Len(tks)] = [epoch |-> epoch, quote |-> quote]]
    ELSE IF ~Accepts(tks, epoch)
    THEN tks
    ELSE LET pushed == Append(tks, [epoch |-> epoch, quote |-> quote])
         IN  IF Len(pushed) > MaxSize THEN Tail(pushed) ELSE pushed

addTick(tks, epoch, quote) ==
    IF ~Accepts(tks, epoch)
    THEN tks
    ELSE LET pushed == Append(tks, [epoch |-> epoch, quote |-> quote])
         IN  IF Len(pushed) > MaxSize THEN Tail(pushed) ELSE pushed

\* clear() that keeps the most recent tick
clear_KeepsLast == IF Len(ticks) > 0 THEN << Last(ticks) >> ELSE << >>

clear == << >>

\* getCurrentTick(): the boxed most recent tick, << >> for null
getCurrentTick(tks) == IF Len(tks) = 0 THEN << >> ELSE << Last(tks) >>

(***************************************************************************)
(* Initial values of the state each specification leaves alone.            *)
(***************************************************************************)
\* index.js: for each timeframe, activeCandles[label] = makeTCandle(secs, now)
(***************************************************************************)
(* probabilityEngine.js: VolatilityEngine                                  *)
(*                                                                         *)
(* Numbers of the engine are exact fractions << num, den >> in lowest      *)
(* terms, den > 0, and NULL where the code holds null.  Tick quotes are    *)
(* powers of two, so that a log-return Math.log(q2 / q1) is the integer    *)
(* Log2(q2) - Log2(q1) in units of ln 2.  A standard deviation is held by  *)
(* its square (in units of (ln 2)^2), and volRatio by the square of the    *)
(* ratio; thresholds on them are compared squared, which orders            *)
(* non-negative numbers the same way.                                      *)
(***************************************************************************)
NULL == << >>

RECURSIVE GCD(_, _)
GCD(a, b) == IF b = 0 THEN a ELSE GCD(b, a % b)

\* NaN is held as 0/0: every sum, product and quotient with it is again 0/0
\* and every comparison with it is false, as in JavaScript
NaN == << 0, 0 >>

Frac(n, d) ==
    IF d = 0 THEN NaN
    ELSE LET g == GCD(IF n < 0 THEN 0 - n ELSE n, d)
         IN  << n \div g, d \div g >>

Less(a, b) == a[1] * b[2] < b[1] * a[2]
Times(a, b) == Frac(a[1] * b[1], a[2] * b[2])
Over(a, b) == Frac(a[1] * b[2], a[2] * b[1])       \* a / b, b > 0
Squared(n, d) == Frac(n * n, d * d)                \* the square of the literal n/d

RECURSIVE Log2(_)
Log2(q) == IF q <= 1 THEN 0 ELSE 1 + Log2(q \div 2)

RECURSIVE Sum(_)
Sum(s) == IF s = << >> THEN 0 ELSE s[1] + Sum(Tail(s))

\* the last n elements of s: s.slice(-n)
Slice(s, n) == SubSeq(s, Len(s) - n + 1, Len(s))

\* update(): the log-returns of the buffered ticks
logReturnsOf(tks) ==
    [i \in 1..(Len(tks) - 1) |-> Log2(tks[i + 1].quote) - Log2(tks[i].quote)]

\* _stddev(arr), squared: sum((v - mean)^2) / n = (n * sum(v^2) - sum(v)^2) / n^2
stddev(arr) ==
    LET n == Len(arr)
        squares == [i \in 1..n |-> arr[i] * arr[i]]
    IN  IF n = 0 THEN Frac(0, 1)
        ELSE Frac(n * Sum(squares) - Sum(arr) * Sum(arr), n * n)

\* obj[key] of a map of numbers; a missing key reads undefined, which every
\* reader (`!= null`, `|| null`, JSON) treats as null
Get(obj, key) == IF key \in DOMAIN obj THEN obj[key] ELSE NULL

VolWindowSet == { VOL_WINDOWS[i] : i \in 1..Len(VOL_WINDOWS) }

\* constructor
NewVolatilityEngine ==
    [rollingVol |-> EmptyMap, volRatio |-> NULL, volRatioLabel |-> "N/A",
     volTrend |-> "N/A", vol30History |-> << >>,
     momentumScore |-> Frac(0, 1), momentumDirection |-> "NEUTRAL"]

\* update(): the volRatioLabel of a ratio
RatioLabel(ratio) ==
    IF ~Less(ratio, Squared(13, 10)) THEN "HIGH"
    ELSE IF ~Less(ratio, Squared(11, 10)) THEN "ABOVE AVG"
    ELSE IF ~Less(ratio, Squared(9, 10)) THEN "NORMAL"
    ELSE IF ~Less(ratio, Squared(7, 10)) THEN "BELOW AVG"
    ELSE "LOW"

\* update(), steps 1 and 2: the sigma of every configured window
rollingVolOf(tks) ==
    LET logReturns == logReturnsOf(tks)
    IN  [w \in VolWindowSet |->
            IF Len(logReturns) >= w THEN stddev(Slice(logReturns, w)) ELSE NULL]

\* step 3 without the `volBase > 0` test: a zero baseline is divided by
updateRatio_ZeroBaseline(rollingVol) ==
    LET volShort == Get(rollingVol, VOL_SHORT_WINDOW)
        volBase == Get(rollingVol, VOL_BASELINE_WINDOW)
    IN  IF volShort # NULL /\ volBase # NULL
        THEN LET ratio == IF volBase[1] > 0 THEN Over(volShort, volBase)
                          ELSE Frac(Infinity, 1)
             IN  [volRatio |-> ratio, volRatioLabel |-> RatioLabel(ratio)]
        ELSE [volRatio |-> NULL, volRatioLabel |-> "N/A"]

\* update(), step 3: volRatio and volRatioLabel
updateRatio(rollingVol) ==
    LET volShort == Get(rollingVol, VOL_SHORT_WINDOW)
        volBase == Get(rollingVol, VOL_BASELINE_WINDOW)
    IN  IF volShort # NULL /\ volBase # NULL /\ volBase[1] > 0
        THEN LET ratio == Over(volShort, volBase)
             IN  [volRatio |-> ratio, volRatioLabel |-> RatioLabel(ratio)]
        ELSE [volRatio |-> NULL, volRatioLabel |-> "N/A"]

\* update(), step 4: _vol30History and volTrend
updateTrend(eng, volShort) ==
    IF volShort # NULL
    THEN LET pushed == Append(eng.vol30History, volShort)
             hist == IF Len(pushed) > TREND_HISTORY_MAX THEN Tail(pushed) ELSE pushed
         IN  IF Len(hist) >= TREND_SPAN
             THEN LET prev == hist[Len(hist) - TREND_SPAN + 1]
                      curr == hist[Len(hist)]
                  IN  [vol30History |-> hist,
                       volTrend |->
                          IF Less(Times(prev, Squared(105, 100)), curr) THEN "EXPANDING"
                          ELSE IF Less(curr, Times(prev, Squared(95, 100)))
                               THEN "CONTRACTING"
                               ELSE "STABLE"]
             ELSE [vol30History |-> hist, volTrend |-> eng.volTrend]
    ELSE [vol30History |-> eng.vol30History, volTrend |-> eng.volTrend]

\* step 5 counting the ups only
updateMomentum_UpsOnly(eng, logReturns) ==
    IF Len(logReturns) >= MOMENTUM_WINDOW
    THEN LET recent == Slice(logReturns, MOMENTUM_WINDOW)
             ups == Cardinality({i \in 1..MOMENTUM_WINDOW : recent[i] > 0})
             score == Frac(ups, MOMENTUM_WINDOW)
         IN  [momentumScore |-> score,
              momentumDirection |->
                 IF Less(Frac(4, 10), score) THEN "UP"
                 ELSE IF Less(score, Frac(0 - 4, 10)) THEN "DOWN"
                      ELSE "NEUTRAL"]
    ELSE [momentumScore |-> eng.momentumScore,
          momentumDirection |-> eng.momentumDirection]

\* update(), step 5: momentumScore and momentumDirection
updateMomentum(eng, logReturns) ==
    IF Len(logReturns) >= MOMENTUM_WINDOW
    THEN LET recent == Slice(logReturns, MOMENTUM_WINDOW)
             ups == Cardinality({i \in 1..MOMENTUM_WINDOW : recent[i] > 0})
             downs == Cardinality({i \in 1..MOMENTUM_WINDOW : recent[i] < 0})
             score == Frac(ups - downs, MOMENTUM_WINDOW)
         IN  [momentumScore |-> score,
              momentumDirection |->
                 IF Less(Frac(4, 10), score) THEN "UP"
                 ELSE IF Less(score, Frac(0 - 4, 10)) THEN "DOWN"
                      ELSE "NEUTRAL"]
    ELSE [momentumScore |-> eng.momentumScore,
          momentumDirection |-> eng.momentumDirection]

\* update()
update(eng, tks) ==
    IF Len(tks) < 2 THEN eng
    ELSE LET rollingVol == rollingVolOf(tks) @@ eng.rollingVol
             ratio == updateRatio(rollingVol)
             trend == updateTrend(eng, Get(rollingVol, VOL_SHORT_WINDOW))
             momentum == updateMomentum(eng, logReturnsOf(tks))
         IN  [rollingVol |-> rollingVol,
              volRatio |-> ratio.volRatio,
              volRatioLabel |-> ratio.volRatioLabel,
              volTrend |-> trend.volTrend,
              vol30History |-> trend.vol30History,
              momentumScore |-> momentum.momentumScore,
              momentumDirection |-> momentum.momentumDirection]

\* getSigma(window): `this.rollingVol[window] || null`; 0 is falsy
getSigma(eng, window) ==
    LET v == Get(eng.rollingVol, window)
    IN  IF v = NULL \/ v[1] = 0 THEN NULL ELSE v

\* getSnapshot() returning this.rollingVol itself instead of a copy
getSnapshot_SharedMap(eng) ==
    [rollingVol |-> eng.rollingVol,
     volRatio |-> eng.volRatio,
     volRatioLabel |-> eng.volRatioLabel,
     volTrend |-> eng.volTrend,
     momentum |-> [score |-> eng.momentumScore, direction |-> eng.momentumDirection],
     shares |-> {"rollingVol"}]

\* getSnapshot(): the returned object; shares names the objects of the engine
\* that the returned object refers to instead of copying ({...this.rollingVol}
\* and the momentum literal are fresh objects, the other fields are primitives)
getSnapshot(eng) ==
    [rollingVol |-> eng.rollingVol,
     volRatio |-> eng.volRatio,
     volRatioLabel |-> eng.volRatioLabel,
     volTrend |-> eng.volTrend,
     momentum |-> [score |-> eng.momentumScore, direction |-> eng.momentumDirection],
     shares |-> {}]

(***************************************************************************)
(* probabilityEngine.js: ProbabilityEngine                                 *)
(*                                                                         *)
(* The historical store is [state, rows]: state is "absent" (no database   *)
(* file), "ok" or "unreachable" (a query fails); rows are the samples of   *)
(* the active symbol, grouped: n rows with the same mfe_up_120 and         *)
(* mfe_down_120.  A value that is an object or null is << object >> or     *)
(* << >>.                                                                  *)
(***************************************************************************)
Plus(a, b) == Frac(a[1] * b[2] + b[1] * a[2], a[2] * b[2])
Minus(a, b) == Frac(a[1] * b[2] - b[1] * a[2], a[2] * b[2])

\* SELECT COUNT(*) ... WHERE symbol = ?
Total(rows) == Sum([i \in 1..Len(rows) |-> rows[i].n])

\* SUM(CASE WHEN col >= ? THEN 1 ELSE 0 END)
Hits(rows, col, barrierDistance) ==
    Sum([i \in 1..Len(rows) |-> IF rows[i][col] >= barrierDistance THEN rows[i].n ELSE 0])

\* constructor: the engine it builds and the warnings it logs.  Opening a
\* missing database file read-only throws, which the constructor catches.
NewProbabilityEngine(st) ==
    IF st.state = "ok"
    THEN [engine |-> [db |-> "open", hasEmpirical |-> Total(st.rows) > EMPIRICAL_MIN],
          warned |-> 0]
    ELSE [engine |-> [db |-> "null", hasEmpirical |-> FALSE], warned |-> 1]

\* theoretical(barrierDistance, currentPrice): null without a usable sigma, else
\* 2 * normalCDF(-B / (sigma * sqrt(T))), a number in (0, 1] that the model takes
\* as the input phi.  The code asks getSigma(30), the deployed short window.
theoretical(vol, phi) ==
    LET sigma == getSigma(vol, VOL_SHORT_WINDOW)
    IN  IF sigma = NULL \/ sigma[1] = 0 THEN NULL ELSE phi

\* empirical() opening the store when this.db is null
empirical_OpensLate(eng, st, barrierDistance, direction) ==
    IF st.state # "ok" \/ Total(st.rows) = 0
    THEN [threw |-> FALSE, value |-> << >>]
    ELSE LET col == IF direction = "up" THEN "mfe_up_120" ELSE "mfe_down_120"
             total == Total(st.rows)
         IN  [threw |-> FALSE,
              value |-> << [probability |-> Frac(Hits(st.rows, col, barrierDistance), total),
                            sampleSize |-> total] >>]

\* empirical(barrierDistance, direction): [threw, value]; a query on a store
\* that is not reachable throws, and empirical() has no try
empirical(eng, st, barrierDistance, direction) ==
    IF ~eng.hasEmpirical \/ eng.db = "null" THEN [threw |-> FALSE, value |-> << >>]
    ELSE IF st.state # "ok" THEN [threw |-> TRUE, value |-> << >>]
    ELSE LET col == IF direction = "up" THEN "mfe_up_120" ELSE "mfe_down_120"
             total == Total(st.rows)
         IN  IF total = 0 THEN [threw |-> FALSE, value |-> << >>]
             ELSE [threw |-> FALSE,
                   value |-> << [probability |-> Frac(Hits(st.rows, col, barrierDistance), total),
                                 sampleSize |-> total] >>]

\* the blend with the weights exchanged
Combine_Exchanged(theo, emp) ==
    IF theo # NULL /\ emp # << >>
    THEN [combined |-> Plus(Times(Frac(4, 10), theo), Times(Frac(6, 10), emp[1].probability)),
          sampleSize |-> emp[1].sampleSize]
    ELSE IF theo # NULL THEN [combined |-> theo, sampleSize |-> 0]
    ELSE IF emp # << >>
         THEN [combined |-> emp[1].probability, sampleSize |-> emp[1].sampleSize]
         ELSE [combined |-> NULL, sampleSize |-> 0]

\* estimate(): combined and sampleSize
Combine(theo, emp) ==
    IF theo # NULL /\ emp # << >>
    THEN [combined |-> Plus(Times(Frac(6, 10), theo), Times(Frac(4, 10), emp[1].probability)),
          sampleSize |-> emp[1].sampleSize]
    ELSE IF theo # NULL THEN [combined |-> theo, sampleSize |-> 0]
    ELSE IF emp # << >>
         THEN [combined |-> emp[1].probability, sampleSize |-> emp[1].sampleSize]
         ELSE [combined |-> NULL, sampleSize |-> 0]

\* estimate(barrierDistance, currentPrice, direction): [threw, value]
estimate(eng, vol, st, barrierDistance, direction, phi) ==
    LET theo == theoretical(vol, phi)
        emp == empirical(eng, st, barrierDistance, direction)
    IN  IF emp.threw THEN [threw |-> TRUE, value |-> << >>]
        ELSE LET blend == Combine(theo, emp.value)
             IN  [threw |-> FALSE,
                  value |-> << [theoretical |-> theo,
                                empirical |-> IF emp.value # << >>
                                              THEN emp.value[1].probability ELSE NULL,
                                combined |-> blend.combined,
                                sampleSize |-> blend.sampleSize] >>]

SeedCandles(tfs, e) ==
    [lab \in LabelsOf(tfs) |->
        makeTCandle(tfs[CHOOSE i \in 1..Len(tfs) : tfs[i].label = lab].secs, e)]

\* activeCandles as a caller sets it up: {} (seed = <<>>) or seeded at an epoch
InitialCandles(tfs, sd) == IF sd = << >> THEN EmptyMap ELSE SeedCandles(tfs, sd[1])

StoreIdle ==
    /\ ticks = << >>
    /\ accepted = << >>

CandleIdle ==
    /\ closed = EmptyMap
    /\ emitted = [lab \in Labels |-> << >>]
    /\ skipped = [lab \in Labels |-> {}]
    /\ fed = << >>

BucketIdle ==
    /\ candle = EmptyMap
    /\ prices = << >>

ServerIdle ==
    /\ tickCount = 0
    /\ lastTickTime = null
    /\ gapEvents = 0
    /\ historySnapshot = EmptyMap
    /\ connected = FALSE

VolIdle ==
    /\ volEngine = NewVolatilityEngine
    /\ updates = << >>
    /\ snapshot = << >>
    /\ returned = << >>
    /\ clock = 0
    /\ run = [moves |-> 0, clears |-> 0]

NoStore == [state |-> "absent", rows |-> << >>]

\* the engine as the server constructs it at startup, here without a store
ProbIdle ==
    /\ store = NoStore
    /\ probEngine = NewProbabilityEngine(NoStore).engine
    /\ warned = NewProbabilityEngine(NoStore).warned
    /\ built = NoStore.state

\* index.js: let uiConfig = { barrier: 2.0, payoutROI: 109, direction: 'up' }
InitialUiConfig == [barrier |-> Frac(2, 1), payoutROI |-> Frac(109, 1), direction |-> "up"]

\* DerivClient constructor; `timer` is the pending setTimeout of scheduleReconnect,
\* `disconnected` the history of disconnect() having been called
NewDerivClient ==
    [ws |-> "null", isConnected |-> FALSE, isReconnecting |-> FALSE,
     reconnectAttempts |-> 0, timer |-> FALSE, delay |-> 0, disconnected |-> FALSE]

\* no dashboard client, no connection to the upstream, no fetchHistory call
PeersIdle ==
    /\ uiConfig = InitialUiConfig
    /\ client = [connected |-> FALSE, candles |-> {}]
    /\ derivClient = NewDerivClient
    /\ fetch = [page |-> 0, pending |-> FALSE, allTicks |-> << >>, done |-> FALSE,
                result |-> << >>]

NoCall == [op |-> "none"]

\* volEngine.update() on the buffer tks
Updated(tks) ==
    /\ volEngine' = update(volEngine, tks)
    /\ updates' = Append(updates, IF Len(tks) < 2 THEN NULL
                                  ELSE Get(rollingVolOf(tks), VOL_SHORT_WINDOW))
    /\ returned' = << >>

(***************************************************************************)
(* SpecStore: a TickStore on its own.                                      *)
(***************************************************************************)
StoreEpochs == 1..MaxStoreEpoch

AddTick(epoch, quote) ==
    /\ ticks' = addTick(ticks, epoch, quote)
    /\ accepted' = IF Accepts(ticks, epoch)
                   THEN Append(accepted, [epoch |-> epoch, quote |-> quote])
                   ELSE accepted
    /\ call' = [op |-> "addTick", epoch |-> epoch, quote |-> quote,
                cleared |-> IF call.op = "clear" THEN call.cleared ELSE << >>]
    /\ UNCHANGED << candleVars, bucketVars, serverVars, volVars, probVars, uiVars, upstreamVars >>

\* `cleared` remembers the most recent tick the buffer held when clear() ran
Clear ==
    /\ ticks' = clear
    /\ accepted' = << >>
    /\ call' = [op |-> "clear", cleared |-> getCurrentTick(ticks)]
    /\ UNCHANGED << candleVars, bucketVars, serverVars, volVars, probVars, uiVars, upstreamVars >>

(***************************************************************************)
(* microStructure.js, its windows of 10, 30 and 60 ticks scaled to         *)
(* MICRO_WINDOW \div 4, MICRO_WINDOW \div 2 and MICRO_WINDOW                *)
(***************************************************************************)
\* getCurrentFeatures(): [threw, value], value << >> for null.  ticks[i] of the
\* code is tks[i + 1]; an index outside the array reads undefined, and
\* undefined.quote throws a TypeError.
getCurrentFeatures(tks) ==
    LET count == Len(tks)
        inside(i) == 0 <= i /\ i < count
        quote(i) == tks[i + 1].quote
        short == MICRO_WINDOW \div 4
        mid == MICRO_WINDOW \div 2
    IN  IF count < MICRO_WINDOW THEN [threw |-> FALSE, value |-> << >>]
        ELSE IF ~( /\ inside(count - 1 - short) /\ inside(count - 1 - mid)
                   /\ inside(count - 1 - MICRO_WINDOW)
                   /\ inside(count - (MICRO_WINDOW + 1)) )
        THEN [threw |-> TRUE, value |-> << >>]
        ELSE LET currentQuote == quote(count - 1)
                 vel10 == currentQuote - quote(count - 1 - short)
                 vel30 == currentQuote - quote(count - 1 - mid)
                 vel60 == currentQuote - quote(count - 1 - MICRO_WINDOW)
                 scanned == { quote(i) : i \in (count - (MICRO_WINDOW + 1))..(count - 1) }
                 max60 == CHOOSE q \in scanned : \A r \in scanned : r <= q
                 min60 == CHOOSE q \in scanned : \A r \in scanned : q <= r
             IN  [threw |-> FALSE,
                  value |-> << [vel10 |-> vel10, vel30 |-> vel30, vel60 |-> vel60,
                                accel |-> Frac(3 * vel10 - vel30, 3),
                                comp60 |-> max60 - min60,
                                currentPrice |-> currentQuote,
                                timestamp |-> tks[count].epoch] >>]

\* a MicroStructureEngine over the store is asked for its features
GetCurrentFeatures ==
    /\ call' = [op |-> "getCurrentFeatures", ret |-> getCurrentFeatures(ticks)]
    /\ UNCHANGED << storeVars, candleVars, bucketVars, serverVars, volVars, probVars,
                    uiVars, upstreamVars >>

InitStore ==
    /\ StoreIdle /\ CandleIdle /\ BucketIdle /\ ServerIdle /\ VolIdle /\ ProbIdle
    /\ PeersIdle
    /\ activeCandles = EmptyMap
    /\ seed = << >>
    /\ call = NoCall

NextStore ==
    \/ \E epoch \in StoreEpochs, quote \in Prices : AddTick(epoch, quote)
    \/ Clear
    \/ GetCurrentFeatures

SpecStore == InitStore /\ [][NextStore]_vars

(***************************************************************************)
(* SpecBucket: one candle, made by makeTCandle and fed by updateTCandle.   *)
(***************************************************************************)
BucketTfs == (1..MaxTf) \cup { TIMEFRAMES[i].secs : i \in 1..Len(TIMEFRAMES) }
BucketEpochs == (0..MaxNow) \cup {59, 60, 3659, 10002}
BucketPrices == 1..MaxPrice

MakeCandle(tfSec, nowEpoch) ==
    /\ candle' = makeTCandle(tfSec, nowEpoch)
    /\ prices' = << >>
    /\ call' = [op |-> "makeTCandle", tfSec |-> tfSec, nowEpoch |-> nowEpoch]
    /\ UNCHANGED << storeVars, candleVars, serverVars, volVars, probVars, uiVars, upstreamVars >>

UpdateCandle(price) ==
    /\ candle # EmptyMap
    /\ Len(prices) < MaxUpdates
    /\ candle' = updateTCandle(candle, price)
    /\ prices' = Append(prices, price)
    /\ call' = [op |-> "updateTCandle", price |-> price]
    /\ UNCHANGED << storeVars, candleVars, serverVars, volVars, probVars, uiVars, upstreamVars >>

InitBucket ==
    /\ StoreIdle /\ CandleIdle /\ BucketIdle /\ ServerIdle /\ VolIdle /\ ProbIdle
    /\ PeersIdle
    /\ activeCandles = EmptyMap
    /\ seed = << >>
    /\ call = NoCall

NextBucket ==
    \/ \E tfSec \in BucketTfs, nowEpoch \in BucketEpochs : MakeCandle(tfSec, nowEpoch)
    \/ \E price \in BucketPrices : UpdateCandle(price)

SpecBucket == InitBucket /\ [][NextBucket]_vars

(***************************************************************************)
(* SpecCandle: the aggregator on its own, fed any ticks in any order.      *)
(***************************************************************************)
\* openTimes of the buckets of duration secs lying wholly between the candle
\* that was active (old) and the candle that is active now (new)
SkippedBetween(old, new, secs) ==
    { b \in old.closeTime..(new.openTime - 1) : b % secs = 0 /\ b + secs <= new.openTime }

\* the history variables after processTick(price, epoch, ac) returned r
Aggregated(price, epoch, ac, r) ==
    /\ emitted' = [lab \in Labels |->
                     IF lab \in DOMAIN r.closed
                     THEN Append(emitted[lab], r.closed[lab])
                     ELSE emitted[lab]]
    /\ skipped' = [lab \in Labels |->
                     IF lab \in DOMAIN ac
                     THEN skipped[lab] \cup
                          SkippedBetween(ac[lab], r.activeCandles[lab], SecsOf(lab))
                     ELSE skipped[lab]]
    /\ fed' = Append(fed, [epoch |-> epoch, quote |-> price])

ProcessTick(price, epoch) ==
    /\ Len(fed) < MaxTicks
    /\ LET r == processTick(price, epoch, activeCandles)
       IN  /\ activeCandles' = r.activeCandles
           /\ closed' = r.closed
           /\ Aggregated(price, epoch, activeCandles, r)
    /\ call' = [op |-> "processTick", epoch |-> epoch, quote |-> price]
    /\ UNCHANGED << seed, storeVars, bucketVars, serverVars, volVars, probVars, uiVars, upstreamVars >>

HistoryEpochs == {3, 4, 5}

\* what fetchHistory resolves to: at most n ticks sorted by epoch, one per epoch
RECURSIVE HistoriesUpTo(_)
HistoriesUpTo(n) ==
    IF n = 0 THEN { << >> }
    ELSE LET shorter == HistoriesUpTo(n - 1)
         IN  shorter \cup
             UNION { { Append(h, t) : t \in { x \in [epoch : HistoryEpochs, quote : Prices] :
                                               h = << >> \/ Last(h).epoch < x.epoch } } :
                     h \in shorter }

\* a caller replays a history, sorted by epoch, before the live ticks
\* (makeHistoryCandles reads and writes no state)
MakeHistoryCandles(history) ==
    /\ call = NoCall
    /\ call' = [op |-> "makeHistoryCandles", ticks |-> history,
                ret |-> makeHistoryCandles(history)]
    /\ UNCHANGED << storeVars, candleVars, bucketVars, serverVars, volVars, probVars,
                    uiVars, upstreamVars >>

InitCandle ==
    /\ StoreIdle /\ CandleIdle /\ BucketIdle /\ ServerIdle /\ VolIdle /\ ProbIdle
    /\ PeersIdle
    /\ seed \in {<< >>} \cup { <<e>> : e \in SeedEpochs }
    /\ activeCandles = InitialCandles(TIMEFRAMES, seed)
    /\ call = NoCall

NextCandle ==
    \/ \E price \in Prices, epoch \in Epochs : ProcessTick(price, epoch)
    \/ \E history \in HistoriesUpTo(MaxTicks) : MakeHistoryCandles(history)

SpecCandle == InitCandle /\ [][NextCandle]_vars

(***************************************************************************)
(* Spec: the server (index.js): startup pre-fill, then live ticks.         *)
(***************************************************************************)
Histories == HistoriesUpTo(MaxHistory)

RECURSIVE addTicks(_, _, _)
addTicks(tks, h, k) ==
    IF k > Len(h) THEN tks
    ELSE LET next == addTick(tks, h[k].epoch, h[k].quote)
         IN  IF Forced(next) THEN addTicks(next, h, k + 1) ELSE tks

\* derivClient.fetchHistory(3).then(history => ...)
Prefill(history) ==
    /\ ~connected
    /\ IF Len(history) > 0
       THEN /\ ticks' = addTicks(ticks, history, 1)
            /\ tickCount' = tickCount + Len(history)
            /\ Updated(ticks')
            /\ historySnapshot' = [ticks |-> history, candles |-> makeHistoryCandles(history)]
       ELSE UNCHANGED << ticks, tickCount, historySnapshot, volEngine, updates,
                         returned >>
    /\ connected' = TRUE
    /\ accepted' = accepted \o history   \* the buffer is empty and history is sorted
    /\ call' = [op |-> "prefill"]
    /\ UNCHANGED << candleVars, bucketVars, lastTickTime, gapEvents,
                    snapshot, clock, run, probVars, uiVars, upstreamVars >>

\* the (label, time) of the candles of a history message
CandlesOf(candles) ==
    UNION { { << lab, candles[lab][i].time >> : i \in 1..Len(candles[lab]) } : lab \in Labels }

\* the (label, time) of the candle_closed and candle_update messages of a tick
Broadcast(cl, ac) ==
    { << lab, cl[lab].time >> : lab \in DOMAIN cl }
    \cup { << lab, ac[lab].openTime >> : lab \in { l \in Labels : ac[l].o # null } }

\* derivClient.on('tick', (tick) => ...)
LiveTick(price, epoch) ==
    /\ connected
    /\ Len(fed) < MaxLive
    /\ tickCount' = tickCount + 1
    /\ gapEvents' = IF lastTickTime # null /\ 2 * (epoch - lastTickTime) > 5
                    THEN gapEvents + 1 ELSE gapEvents
    /\ lastTickTime' = epoch
    /\ ticks' = addTick(ticks, epoch, price)
    /\ accepted' = IF Accepts(ticks, epoch)
                   THEN Append(accepted, [epoch |-> epoch, quote |-> price])
                   ELSE accepted
    /\ Updated(ticks')
    /\ LET r == processTick(price, epoch, activeCandles)
       IN  /\ activeCandles' = r.activeCandles
           /\ closed' = r.closed
           /\ Aggregated(price, epoch, activeCandles, r)
    /\ client' = IF client.connected
                 THEN [client EXCEPT !.candles = @ \cup Broadcast(closed', activeCandles')]
                 ELSE client
    /\ call' = [op |-> "tick", epoch |-> epoch, quote |-> price]
    /\ UNCHANGED << seed, bucketVars, historySnapshot, connected,
                    snapshot, clock, run, probVars, uiConfig, upstreamVars >>

\* wss.on('connection'): the history message sent to the new client
ClientConnects ==
    /\ ~client.connected
    /\ client' = [connected |-> TRUE,
                  candles |-> IF Len(ticks) > 0 THEN CandlesOf(makeHistoryCandles(ticks))
                              ELSE IF historySnapshot # EmptyMap
                                   THEN CandlesOf(historySnapshot.candles)
                                   ELSE {}]
    /\ call' = [op |-> "connection"]
    /\ UNCHANGED << storeVars, candleVars, bucketVars, serverVars, volVars, probVars,
                    uiConfig, upstreamVars >>

Init ==
    /\ StoreIdle /\ CandleIdle /\ BucketIdle /\ ServerIdle /\ VolIdle /\ ProbIdle
    /\ PeersIdle
    /\ seed \in { <<e>> : e \in SeedEpochs }
    /\ activeCandles = SeedCandles(TIMEFRAMES, seed[1])
    /\ call = NoCall

Next ==
    \/ \E history \in Histories : Prefill(history)
    \/ \E price \in Prices, epoch \in Epochs : LiveTick(price, epoch)
    \/ ClientConnects

Spec == Init /\ [][Next]_vars

(***************************************************************************)
(* SpecVol: a VolatilityEngine over its TickStore; the feed delivers ticks *)
(* with increasing epochs, the buffer may be cleared, update() is called.  *)
(***************************************************************************)
VolAddTick(quote) ==
    /\ clock < MaxVolTicks
    /\ clock' = clock + 1
    /\ ticks' = addTick(ticks, clock + 1, quote)
    /\ accepted' = Append(accepted, [epoch |-> clock + 1, quote |-> quote])
    /\ call' = [op |-> "addTick", epoch |-> clock + 1, quote |-> quote]
    /\ UNCHANGED << candleVars, bucketVars, serverVars, volEngine, updates,
                    snapshot, returned, run, probVars, uiVars, upstreamVars >>

VolClear ==
    /\ ticks # << >>
    /\ ticks' = clear
    /\ accepted' = << >>
    /\ call' = [op |-> "clear"]
    /\ UNCHANGED << candleVars, bucketVars, serverVars, volVars, probVars, uiVars, upstreamVars >>

VolUpdate ==
    /\ Len(updates) < MaxVolCalls
    /\ Updated(ticks)
    /\ call' = [op |-> "update"]
    /\ UNCHANGED << storeVars, candleVars, bucketVars, serverVars,
                    snapshot, clock, run, probVars, uiVars, upstreamVars >>

InitVol ==
    /\ StoreIdle /\ CandleIdle /\ BucketIdle /\ ServerIdle /\ VolIdle /\ ProbIdle
    /\ PeersIdle
    /\ activeCandles = EmptyMap
    /\ seed = << >>
    /\ call = NoCall

NextVol ==
    \/ \E quote \in VolQuotes : VolAddTick(quote)
    \/ VolClear
    \/ VolUpdate

SpecVol == InitVol /\ [][NextVol]_vars

(***************************************************************************)
(* SpecSnapshot: the engine updated on every tick (index.js), and a reader *)
(* that calls getSigma and getSnapshot between ticks and writes into the   *)
(* object getSnapshot returned.  The reader drops the object at the next   *)
(* tick.                                                                   *)
(***************************************************************************)
SnapTick(quote) ==
    /\ clock < MaxVolTicks
    /\ clock' = clock + 1
    /\ ticks' = addTick(ticks, clock + 1, quote)
    /\ accepted' = Append(accepted, [epoch |-> clock + 1, quote |-> quote])
    /\ Updated(ticks')
    /\ snapshot' = << >>
    /\ call' = [op |-> "tick", epoch |-> clock + 1, quote |-> quote]
    /\ UNCHANGED << candleVars, bucketVars, serverVars, run, probVars, uiVars, upstreamVars >>

GetSigma(window) ==
    /\ call' = [op |-> "getSigma", window |-> window, ret |-> getSigma(volEngine, window)]
    /\ UNCHANGED << storeVars, candleVars, bucketVars, serverVars, volVars, probVars, uiVars, upstreamVars >>

GetSnapshot ==
    /\ Len(returned) < 2
    /\ snapshot' = << getSnapshot(volEngine) >>
    /\ returned' = Append(returned, getSnapshot(volEngine))
    /\ call' = [op |-> "getSnapshot", held |-> snapshot]   \* held: the object replaced
    /\ UNCHANGED << storeVars, candleVars, bucketVars, serverVars, volEngine,
                    updates, clock, run, probVars, uiVars, upstreamVars >>

\* the value the reader writes
Written == Frac(7, 1)

\* the reader assigns snapshot.rollingVol[VOL_SHORT_WINDOW], or
\* snapshot.momentum.score; an assignment into an object the snapshot shares
\* with the engine is an assignment into the engine's object
MutateSnapshot(field) ==
    /\ snapshot # << >>
    /\ snapshot[1] = Last(returned)
    /\ LET snap == snapshot[1]
           rollingVol == (VOL_SHORT_WINDOW :> Written) @@ snap.rollingVol
       IN  IF field = "rollingVol"
           THEN /\ snapshot' = << [snap EXCEPT !.rollingVol = rollingVol] >>
                /\ volEngine' = IF "rollingVol" \in snap.shares
                                THEN [volEngine EXCEPT !.rollingVol = rollingVol]
                                ELSE volEngine
           ELSE /\ snapshot' = << [snap EXCEPT !.momentum.score = Written] >>
                /\ volEngine' = IF "momentum" \in snap.shares
                                THEN [volEngine EXCEPT !.momentumScore = Written]
                                ELSE volEngine
    /\ call' = [op |-> "mutate", field |-> field]
    /\ UNCHANGED << storeVars, candleVars, bucketVars, serverVars, updates,
                    returned, clock, run, probVars, uiVars, upstreamVars >>

NextSnapshot ==
    \/ \E quote \in VolQuotes : SnapTick(quote)
    \/ \E window \in VolWindowSet : GetSigma(window)
    \/ GetSnapshot
    \/ \E field \in {"rollingVol", "momentum"} : MutateSnapshot(field)

SpecSnapshot == InitVol /\ [][NextSnapshot]_vars

(***************************************************************************)
(* SpecTrend: a long run of the engine updated on every tick (index.js),   *)
(* over a price that is flat but for a few moves, with the buffer cleared  *)
(* on a stream discontinuity.                                              *)
(***************************************************************************)
TrendQuotes == {1, 2}

TrendTick(quote) ==
    /\ Len(updates) < MaxTrendCalls
    /\ LET moved == ticks # << >> /\ quote # Last(ticks).quote
       IN  /\ moved => run.moves < MaxMoves
           /\ run' = IF moved THEN [run EXCEPT !.moves = @ + 1] ELSE run
    /\ clock' = clock + 1
    /\ ticks' = addTick(ticks, clock + 1, quote)
    /\ accepted' = Append(accepted, [epoch |-> clock + 1, quote |-> quote])
    /\ Updated(ticks')
    /\ call' = [op |-> "tick", epoch |-> clock + 1, quote |-> quote]
    /\ UNCHANGED << candleVars, bucketVars, serverVars, snapshot, probVars, uiVars, upstreamVars >>

TrendClear ==
    /\ ticks # << >>
    /\ run.clears < MaxClears
    /\ run' = [run EXCEPT !.clears = @ + 1]
    /\ ticks' = clear
    /\ accepted' = << >>
    /\ call' = [op |-> "clear"]
    /\ UNCHANGED << candleVars, bucketVars, serverVars, volEngine, updates,
                    snapshot, returned, clock, probVars, uiVars, upstreamVars >>

NextTrend ==
    \/ \E quote \in TrendQuotes : TrendTick(quote)
    \/ TrendClear

SpecTrend == InitVol /\ [][NextTrend]_vars

(***************************************************************************)
(* SpecProb: a ProbabilityEngine constructed over a store in any state,    *)
(* its VolatilityEngine updated on every tick, estimate() and empirical()  *)
(* called at any time, and the store changing behind it.                   *)
(***************************************************************************)
\* a store of n samples: 40 rows that moved up 3 and down 1, the rest up 1 and
\* down 3
StoreOf(n) ==
    [state |-> "ok",
     rows |-> IF n = 0 THEN << >>
              ELSE << [mfe_up_120 |-> 3, mfe_down_120 |-> 1, n |-> 40],
                      [mfe_up_120 |-> 1, mfe_down_120 |-> 3, n |-> n - 40] >>]
SampleCounts == {0, EMPIRICAL_MIN - 1, EMPIRICAL_MIN, EMPIRICAL_MIN + 1}
Stores == {NoStore} \cup {StoreOf(n) : n \in SampleCounts}
Barriers == {2, 4}
Directions == {"up", "down"}
\* values of the theoretical formula: 1 (a barrier at the price), 1/2, 1/10
TheoValues == {Frac(1, 1), Frac(1, 2), Frac(1, 10)}

ProbTick(quote) ==
    /\ clock < MaxProbTicks
    /\ clock' = clock + 1
    /\ ticks' = addTick(ticks, clock + 1, quote)
    /\ accepted' = Append(accepted, [epoch |-> clock + 1, quote |-> quote])
    /\ Updated(ticks')
    /\ call' = [op |-> "tick", epoch |-> clock + 1, quote |-> quote]
    /\ UNCHANGED << candleVars, bucketVars, serverVars, snapshot, run, probVars, uiVars, upstreamVars >>

Estimate(barrierDistance, direction, phi) ==
    /\ call' = [op |-> "estimate", barrierDistance |-> barrierDistance,
                direction |-> direction, phi |-> phi,
                ret |-> estimate(probEngine, volEngine, store, barrierDistance,
                                 direction, phi)]
    /\ UNCHANGED << storeVars, candleVars, bucketVars, serverVars, volVars, probVars, uiVars, upstreamVars >>

Empirical(barrierDistance, direction) ==
    /\ call' = [op |-> "empirical", barrierDistance |-> barrierDistance,
                direction |-> direction,
                ret |-> empirical(probEngine, store, barrierDistance, direction)]
    /\ UNCHANGED << storeVars, candleVars, bucketVars, serverVars, volVars, probVars, uiVars, upstreamVars >>

\* the store is created, or is reachable again, with the samples of st
StoreAppears(st) ==
    /\ store.state # "ok"
    /\ st.state = "ok"
    /\ store.state = "unreachable" => st = [store EXCEPT !.state = "ok"]
    /\ store' = st
    /\ call' = [op |-> "store"]
    /\ UNCHANGED << storeVars, candleVars, bucketVars, serverVars, volVars,
                    probEngine, warned, built, uiVars, upstreamVars >>

\* the store stops answering queries
StoreFails ==
    /\ store.state = "ok"
    /\ store' = [store EXCEPT !.state = "unreachable"]
    /\ call' = [op |-> "store"]
    /\ UNCHANGED << storeVars, candleVars, bucketVars, serverVars, volVars,
                    probEngine, warned, built, uiVars, upstreamVars >>

InitProb ==
    /\ StoreIdle /\ CandleIdle /\ BucketIdle /\ ServerIdle /\ VolIdle
    /\ PeersIdle
    /\ activeCandles = EmptyMap
    /\ seed = << >>
    /\ call = NoCall
    /\ store \in Stores
    /\ probEngine = NewProbabilityEngine(store).engine
    /\ warned = NewProbabilityEngine(store).warned
    /\ built = store.state

NextProb ==
    \/ \E quote \in VolQuotes : ProbTick(quote)
    \/ \E barrierDistance \in Barriers, direction \in Directions, phi \in TheoValues :
          Estimate(barrierDistance, direction, phi)
    \/ \E barrierDistance \in Barriers, direction \in Directions :
          Empirical(barrierDistance, direction)
    \/ \E st \in Stores : StoreAppears(st)
    \/ StoreFails

SpecProb == InitProb /\ [][NextProb]_vars

(***************************************************************************)
(* edgeCalculator.js and the dashboard side of index.js                    *)
(***************************************************************************)
\* analyze(): the warnings.  A warning is a tuple of its text and the numbers
\* formatted into it.  volRatio is held squared; `null < 0.9` is true.
Warnings(vol, probEstimate, count) ==
    (IF count < WARMUP_TICKS
     THEN << << "Warmup", count, WARMUP_TICKS >> >> ELSE << >>)
    \o (IF vol.volRatio # NULL /\ Less(vol.volRatio, Squared(7, 10))
        THEN << << "Vol Ratio below 0.7 - market quiet" >> >> ELSE << >>)
    \o (IF /\ vol.volTrend = "CONTRACTING"
           /\ (vol.volRatio = NULL \/ Less(vol.volRatio, Squared(9, 10)))
        THEN << << "Vol contracting & below average" >> >> ELSE << >>)
    \o (IF probEstimate.combined = NULL
        THEN << << "Probability unavailable - insufficient data" >> >> ELSE << >>)
    \o (IF probEstimate.sampleSize < LOW_SAMPLE
        THEN << << "Low sample size", probEstimate.sampleSize >> >> ELSE << >>)

\* analyze() returning the edge as computed, null when there is no probability
analyze_NullEdge(vol, probEstimate, payoutROI, count) ==
    LET impliedProb == Over(Frac(1, 1), Plus(Frac(1, 1), Over(payoutROI, Frac(100, 1))))
        ourProb == probEstimate.combined
    IN  [impliedProb |-> impliedProb,
         ourProb |-> IF ourProb = NULL THEN Frac(0, 1) ELSE ourProb,
         theoretical |-> probEstimate.theoretical,
         empirical |-> probEstimate.empirical,
         edge |-> IF ourProb # NULL THEN Minus(ourProb, impliedProb) ELSE NULL,
         warnings |-> Warnings(vol, probEstimate, count),
         sampleSize |-> probEstimate.sampleSize]

\* analyze(probEstimate, payoutROI, count) of an EdgeCalculator over vol
analyze(vol, probEstimate, payoutROI, count) ==
    LET impliedProb == Over(Frac(1, 1), Plus(Frac(1, 1), Over(payoutROI, Frac(100, 1))))
        ourProb == probEstimate.combined
        edge == IF ourProb # NULL THEN Minus(ourProb, impliedProb) ELSE NULL
    IN  [impliedProb |-> impliedProb,
         ourProb |-> IF ourProb = NULL THEN Frac(0, 1) ELSE ourProb,
         theoretical |-> probEstimate.theoretical,
         empirical |-> probEstimate.empirical,
         edge |-> IF edge = NULL THEN Frac(0, 1) ELSE edge,
         warnings |-> Warnings(vol, probEstimate, count),
         sampleSize |-> probEstimate.sampleSize]

\* the value of the longest prefix of chars that is a decimal number, read from
\* position i on with acc the value of the digits before it; NaN when the
\* prefix is empty
RECURSIVE parsePrefix(_, _, _)
parsePrefix(chars, i, acc) ==
    LET digit == IF i > Len(chars) THEN 0 - 1
                 ELSE CASE chars[i] = "0" -> 0 [] chars[i] = "1" -> 1 [] chars[i] = "2" -> 2
                        [] chars[i] = "3" -> 3 [] chars[i] = "4" -> 4 [] chars[i] = "5" -> 5
                        [] chars[i] = "6" -> 6 [] chars[i] = "7" -> 7 [] chars[i] = "8" -> 8
                        [] chars[i] = "9" -> 9 [] OTHER -> 0 - 1
    IN  IF digit < 0 THEN (IF i = 1 THEN NaN ELSE Frac(acc, 1))
        ELSE parsePrefix(chars, i + 1, 10 * acc + digit)

\* parseFloat(v).  A field v of an inbound JSON message is [kind, num, chars]:
\* absent (or null), the number num, or the string of the characters chars.
parseFloat(v) ==
    IF v.kind = "number" THEN Frac(v.num, 1) ELSE parsePrefix(v.chars, 1, 0)

\* ws.on('message'): the uiConfig after the message msg
onMessage(cfg, msg) ==
    IF msg.type # "update_config" THEN cfg
    ELSE [barrier |-> IF msg.barrier.kind # "absent" THEN parseFloat(msg.barrier)
                      ELSE cfg.barrier,
          payoutROI |-> IF msg.payoutROI.kind # "absent" THEN parseFloat(msg.payoutROI)
                        ELSE cfg.payoutROI,
          direction |-> IF msg.direction # "" THEN msg.direction ELSE cfg.direction]

\* setInterval(() => ...): [emitted, threw, payload, estimate], estimate being
\* the estimate() result the active edge was computed from.  The store's query
\* compares the barrier with each row: a NaN parameter matches no row.
analyticsTask(tks, cfg, count, gaps, eng, vol, st, phi) ==
    IF Len(tks) = 0
    THEN [emitted |-> FALSE, threw |-> FALSE, payload |-> << >>, estimate |-> << >>]
    ELSE LET currentPrice == Last(tks).quote
             barrier == IF cfg.barrier # NaN THEN cfg.barrier[1] ELSE Infinity
             probUp == estimate(eng, vol, st, barrier, "up", phi)
             probDown == estimate(eng, vol, st, barrier, "down", phi)
         IN  IF probUp.threw \/ probDown.threw
             THEN [emitted |-> FALSE, threw |-> TRUE, payload |-> << >>, estimate |-> << >>]
             ELSE LET edgeUp == analyze(vol, probUp.value[1], cfg.payoutROI, count)
                      edgeDown == analyze(vol, probDown.value[1], cfg.payoutROI, count)
                      up == cfg.direction = "up"
                  IN  [emitted |-> TRUE, threw |-> FALSE,
                       payload |-> << [price |-> currentPrice,
                                       tickCount |-> count,
                                       warmupProgress |-> IF count < WARMUP_TICKS
                                                          THEN Frac(count, WARMUP_TICKS)
                                                          ELSE Frac(1, 1),
                                       warmupDone |-> count >= WARMUP_TICKS,
                                       volatility |-> getSnapshot(vol),
                                       direction |-> cfg.direction,
                                       barrier |-> cfg.barrier,
                                       payoutROI |-> cfg.payoutROI,
                                       active |-> IF up THEN edgeUp ELSE edgeDown,
                                       serverStats |-> [gaps |-> gaps]] >>,
                       estimate |-> IF up THEN probUp.value ELSE probDown.value]

(***************************************************************************)
(* SpecAnalytics: the dashboard side of the server: live ticks feed the    *)
(* buffer and the VolatilityEngine, control messages change uiConfig, and  *)
(* the periodic task computes and broadcasts the analytics payload.        *)
(***************************************************************************)
\* the barrier and payoutROI fields of inbound messages: absent, 3, "x", "4x"
FieldValues ==
    { [kind |-> "absent", num |-> 0, chars |-> << >>],
      [kind |-> "number", num |-> 3, chars |-> << >>],
      [kind |-> "string", num |-> 0, chars |-> << "x" >>],
      [kind |-> "string", num |-> 0, chars |-> << "4", "x" >>] }

\* derivClient.on('tick'), of which the candle aggregation is left out
AnalyticsTick(quote) ==
    /\ clock < MaxAnalyticsTicks
    /\ clock' = clock + 1
    /\ tickCount' = tickCount + 1
    /\ gapEvents' = IF lastTickTime # null /\ 2 * (clock + 1 - lastTickTime) > 5
                    THEN gapEvents + 1 ELSE gapEvents
    /\ lastTickTime' = clock + 1
    /\ ticks' = addTick(ticks, clock + 1, quote)
    /\ accepted' = Append(accepted, [epoch |-> clock + 1, quote |-> quote])
    /\ Updated(ticks')
    /\ call' = [op |-> "tick", epoch |-> clock + 1, quote |-> quote]
    /\ UNCHANGED << candleVars, bucketVars, historySnapshot, connected, snapshot, run,
                    probVars, uiVars, upstreamVars >>

OnMessage(msg) ==
    /\ uiConfig' = onMessage(uiConfig, msg)
    /\ call' = [op |-> "message", data |-> msg]
    /\ UNCHANGED << storeVars, candleVars, bucketVars, serverVars, volVars, probVars,
                    client, upstreamVars >>

\* phi stands for 2 * normalCDF(-B / sigmaTotal), NaN when the barrier is NaN
Analytics(phi) ==
    /\ phi # NaN <=> uiConfig.barrier # NaN
    /\ call' = [op |-> "analytics"] @@
                analyticsTask(ticks, uiConfig, tickCount, gapEvents, probEngine,
                              volEngine, store, phi)
    /\ UNCHANGED << storeVars, candleVars, bucketVars, serverVars, volVars, probVars,
                    uiVars, upstreamVars >>

NextAnalytics ==
    \/ \E quote \in Prices : AnalyticsTick(quote)
    \/ \E barrier \in FieldValues, payoutROI \in FieldValues :
          OnMessage([type |-> "update_config", barrier |-> barrier,
                     payoutROI |-> payoutROI,
                     direction |-> IF barrier.kind = "string" THEN "down" ELSE ""])
    \/ \E barrier \in {v \in FieldValues : v.kind = "string"} :
          OnMessage([type |-> "ping", barrier |-> barrier, payoutROI |-> barrier,
                     direction |-> ""])
    \/ \E phi \in TheoValues \cup {NaN} : Analytics(phi)
    \/ StoreFails

SpecAnalytics == InitProb /\ [][NextAnalytics]_vars

(***************************************************************************)
(* derivClient.js: fetchHistory                                            *)
(***************************************************************************)
\* no sort at all
sortByEpoch_Unsorted(s) == s

\* allTicks.sort((a, b) => a.epoch - b.epoch): Array.prototype.sort is stable,
\* so the first of the ticks with the least epoch comes first
RECURSIVE sortByEpoch(_)
sortByEpoch(s) ==
    IF s = << >> THEN << >>
    ELSE LET k == CHOOSE i \in 1..Len(s) :
                      /\ \A j \in 1..Len(s) : s[i].epoch <= s[j].epoch
                      /\ \A j \in 1..(i - 1) : s[i].epoch < s[j].epoch
         IN  << s[k] >> \o sortByEpoch(SubSeq(s, 1, k - 1) \o SubSeq(s, k + 1, Len(s)))

\* the dedupe loop, lastEpoch starting at -1
RECURSIVE dedupe(_, _, _)
dedupe(s, i, lastEpoch) ==
    IF i > Len(s) THEN << >>
    ELSE IF s[i].epoch # lastEpoch THEN << s[i] >> \o dedupe(s, i + 1, s[i].epoch)
    ELSE dedupe(s, i + 1, lastEpoch)

\* what fetchHistory returns once its loop has ended with allTicks
fetchResult(allTicks) == dedupe(sortByEpoch(allTicks), 1, 0 - 1)

(***************************************************************************)
(* SpecHistory: one fetchHistory(pages) call; the upstream answers each    *)
(* page request with any batch of ticks, an empty batch or a failure.      *)
(***************************************************************************)
\* the loop test and _fetchHistoryPage up to its return: a socket is created
\* and the 12 s timeout armed
RequestPage ==
    /\ ~fetch.done
    /\ ~fetch.pending
    /\ fetch.page < HistoryPages
    /\ fetch' = [fetch EXCEPT !.pending = TRUE]
    /\ call' = [op |-> "requestPage"]
    /\ UNCHANGED << storeVars, candleVars, bucketVars, serverVars, volVars, probVars,
                    uiVars, derivClient >>

\* the pending page resolves to a non-empty batch of ticks with the given
\* epochs, and the loop body runs; the quote of a tick tells the page it came
\* with.  The end epoch of a request only shapes the upstream's answer, which is
\* any batch here.  The iteration that ends the loop also sorts, dedupes and
\* returns.
FetchPage(epochs) ==
    /\ fetch.pending
    /\ LET batch == [i \in 1..Len(epochs) |->
                        [epoch |-> epochs[i], quote |-> fetch.page + 1]]
           all == fetch.allTicks \o batch
           last == fetch.page + 1 = HistoryPages
       IN  fetch' = [page |-> fetch.page + 1, pending |-> FALSE, allTicks |-> all,
                     done |-> last,
                     result |-> IF last THEN fetchResult(all) ELSE << >>]
    /\ call' = [op |-> "fetchPage"]
    /\ UNCHANGED << storeVars, candleVars, bucketVars, serverVars, volVars, probVars,
                    uiVars, derivClient >>

\* a variant of the loop that asks again for a page that came back empty
FetchStops_Retries ==
    /\ fetch.pending
    /\ fetch' = [fetch EXCEPT !.pending = FALSE]
    /\ call' = [op |-> "fetchStops"]
    /\ UNCHANGED << storeVars, candleVars, bucketVars, serverVars, volVars, probVars,
                    uiVars, derivClient >>

\* the pending page resolves to an empty batch (an error answer, a socket
\* error, or the timeout): break, then sort, dedupe and return
FetchStops ==
    /\ fetch.pending
    /\ fetch' = [fetch EXCEPT !.pending = FALSE, !.done = TRUE,
                              !.result = fetchResult(fetch.allTicks)]
    /\ call' = [op |-> "fetchStops"]
    /\ UNCHANGED << storeVars, candleVars, bucketVars, serverVars, volVars, probVars,
                    uiVars, derivClient >>

\* index.js: fetchHistory(3).then(history => ...), the pre-fill and connect()
HistoryThen ==
    /\ fetch.done
    /\ Prefill(fetch.result)

NextHistory ==
    \/ RequestPage
    \/ \E e1 \in 1..MaxPageEpoch : FetchPage(<< e1 >>)
    \/ \E e1 \in 1..MaxPageEpoch, e2 \in 1..MaxPageEpoch : FetchPage(<< e1, e2 >>)
    \/ FetchStops
    \/ HistoryThen

SpecHistory == InitStore /\ [][NextHistory]_vars

\* the event loop runs what is ready: the loop goes on after a page has
\* settled, the timeout of a pending page fires unless the page settled before,
\* and the callback of the resolved promise runs (weak fairness of HistoryThen,
\* with its guard written in place of ENABLED)
SpecHistoryFair ==
    /\ SpecHistory
    /\ WF_vars(RequestPage)
    /\ WF_vars(FetchStops)
    /\ ([]<>(~(fetch.done /\ ~connected)) \/ []<><<HistoryThen>>_vars)

(***************************************************************************)
(* derivClient.js: the live connection                                     *)
(***************************************************************************)
\* handleDisconnect(), run by the 'close' event of the socket
handleDisconnect(dc) ==
    IF ~dc.isReconnecting
    THEN LET delay == (2 ^ dc.reconnectAttempts) * 1000
         IN  [dc EXCEPT !.ws = "closed", !.isConnected = FALSE,
                        !.isReconnecting = TRUE, !.timer = TRUE,
                        !.delay = IF delay > 30000 THEN 30000 ELSE delay]
    ELSE [dc EXCEPT !.ws = "closed", !.isConnected = FALSE]

\* connect(): a socket still in use is terminated, and a new one is created
connect(dc) == [dc EXCEPT !.ws = "connecting"]

(***************************************************************************)
(* SpecClientFair: the DerivClient from the connect() call of the server   *)
(* on: the upstream accepts or refuses an attempt, an open socket delivers *)
(* ticks and may close, the reconnect timer fires, disconnect() is called. *)
(* A pending timer fires, and the upstream, asked again and again, accepts *)
(* in the end.                                                             *)
(***************************************************************************)
\* index.js: derivClient.connect() after the pre-fill
ClientConnect ==
    /\ derivClient.ws = "null"
    /\ derivClient' = connect(derivClient)
    /\ connected' = TRUE
    /\ call' = [op |-> "connect"]
    /\ UNCHANGED << storeVars, candleVars, bucketVars, tickCount, lastTickTime, gapEvents,
                    historySnapshot, volVars, probVars, uiVars, fetch >>

\* ws.on('open')
SocketOpens ==
    /\ derivClient.ws = "connecting"
    /\ derivClient' = [derivClient EXCEPT !.ws = "open", !.isConnected = TRUE,
                                          !.isReconnecting = FALSE,
                                          !.reconnectAttempts = 0]
    /\ call' = [op |-> "open"]
    /\ UNCHANGED << storeVars, candleVars, bucketVars, serverVars, volVars, probVars,
                    uiVars, fetch >>

\* ws.on('close'): an open socket closes, or an attempt fails before it opens
SocketCloses ==
    /\ derivClient.ws \in {"connecting", "open"}
    /\ derivClient' = handleDisconnect(derivClient)
    /\ call' = [op |-> "close", failed |-> derivClient.ws = "connecting"]
    /\ UNCHANGED << storeVars, candleVars, bucketVars, serverVars, volVars, probVars,
                    uiVars, fetch >>

\* the setTimeout callback of scheduleReconnect
ReconnectTimer ==
    /\ derivClient.timer
    /\ derivClient' = connect([derivClient EXCEPT
                                  !.timer = FALSE,
                                  !.reconnectAttempts = derivClient.reconnectAttempts + 1])
    /\ call' = [op |-> "timer"]
    /\ UNCHANGED << storeVars, candleVars, bucketVars, serverVars, volVars, probVars,
                    uiVars, fetch >>

\* disconnect(): terminating a socket in use fires its 'close' event
Disconnect ==
    /\ ~derivClient.disconnected
    /\ LET dc == [derivClient EXCEPT !.isReconnecting = TRUE, !.disconnected = TRUE]
       IN  derivClient' = IF dc.ws \in {"connecting", "open"}
                          THEN handleDisconnect(dc) ELSE dc
    /\ call' = [op |-> "disconnect"]
    /\ UNCHANGED << storeVars, candleVars, bucketVars, serverVars, volVars, probVars,
                    uiVars, fetch >>

\* ws.on('message') with a tick: the server's tick handler runs
ClientTick(quote) ==
    /\ derivClient.ws = "open"
    /\ AnalyticsTick(quote)

NextClient ==
    \/ ClientConnect
    \/ SocketOpens
    \/ SocketCloses
    \/ ReconnectTimer
    \/ Disconnect
    \/ \E quote \in Prices : ClientTick(quote)

SpecClientFair ==
    InitStore /\ [][NextClient]_vars /\ WF_vars(ReconnectTimer) /\ SF_vars(SocketOpens)

\* C25: automatic reconnection: after the live socket closed without
\* disconnect() having been called, the client keeps retrying (an attempt that
\* fails is followed by another scheduled attempt), so when the upstream in the
\* end accepts connections the client is eventually connected again.
C25_EventuallyReconnects ==
    [](  (derivClient.ws = "closed" /\ ~derivClient.disconnected)
         => <>(derivClient.isConnected \/ derivClient.disconnected) )

(***************************************************************************)
(* Properties of fetchHistory (SpecHistory).                               *)
(***************************************************************************)
EpochsOf(s) == { s[i].epoch : i \in 1..Len(s) }

\* C26: fetchHistory returns the ticks of all fetched pages sorted and
\* deduplicated: epochs strictly increase along the returned array, and every
\* epoch received in any page appears in it exactly once, whatever the order or
\* overlap of the pages.
C26_SortedDeduplicated ==
    fetch.done =>
        /\ \A i \in 1..(Len(fetch.result) - 1) :
               fetch.result[i].epoch < fetch.result[i + 1].epoch
        /\ EpochsOf(fetch.result) = EpochsOf(fetch.allTicks)
        /\ \A e \in EpochsOf(fetch.allTicks) :
               Cardinality({ i \in 1..Len(fetch.result) : fetch.result[i].epoch = e }) = 1

\* the pages overlapped and a later page held a later epoch than an earlier one
C26_Witness ==
    /\ fetch.done
    /\ fetch.page = HistoryPages
    /\ Len(fetch.result) < Len(fetch.allTicks)
    /\ \E i \in 1..(Len(fetch.allTicks) - 1) :
           fetch.allTicks[i].epoch > fetch.allTicks[i + 1].epoch
    /\ \E i, j \in 1..Len(fetch.allTicks) :
           /\ i + 1 < j
           /\ fetch.allTicks[i].epoch = fetch.allTicks[j].epoch
           /\ fetch.allTicks[i].quote # fetch.allTicks[j].quote

(***************************************************************************)
(* Properties of TickStore (SpecStore).                                    *)
(***************************************************************************)
\* the last n elements of s (all of s when it is shorter)
LastN(s, n) == IF Len(s) <= n THEN s ELSE SubSeq(s, Len(s) - n + 1, Len(s))

\* C4: on a non-empty buffer, addTick(epoch, quote) with epoch <= the last stored
\* epoch (a duplicate or an earlier epoch) leaves the buffer's length and its
\* whole contents unchanged.
C4_RejectedAddTickIsNoOp ==
    [][ ( /\ call'.op = "addTick"
          /\ Len(ticks) > 0
          /\ call'.epoch <= Last(ticks).epoch )
        => ticks' = ticks ]_vars

\* a full buffer has just refused an earlier epoch, or a duplicate epoch that
\* carried another quote
C4_Witness ==
    /\ call.op = "addTick"
    /\ Len(ticks) = MaxSize
    /\ \/ call.epoch < Last(ticks).epoch
       \/ call.epoch = Last(ticks).epoch /\ call.quote # Last(ticks).quote

\* C5: the buffer never holds more than MaxSize ticks; once more than MaxSize
\* ticks were accepted it holds exactly MaxSize, and what it holds is always the
\* most recently accepted ticks, in acceptance order.
C5_BufferEviction ==
    /\ Len(ticks) <= MaxSize
    /\ Len(accepted) > MaxSize => Len(ticks) = MaxSize
    /\ ticks = LastN(accepted, MaxSize)

\* more ticks were accepted than the buffer holds
C5_Witness == Len(accepted) > MaxSize /\ call.op = "addTick"

\* C27: in every state reachable by addTick and clear(), the stored ticks are
\* strictly increasing in epoch, and a stored tick is never modified after its
\* insertion: a tick that is still stored has the quote it was stored with.
C27_Increasing ==
    \A i \in 1..(Len(ticks) - 1) : ticks[i].epoch < ticks[i + 1].epoch

C27_Step ==
    \A i \in 1..Len(ticks) : \A j \in 1..Len(ticks') :
        ticks'[j].epoch = ticks[i].epoch => ticks'[j] = ticks[i]

C27_StrictlyIncreasingUnmodified == []C27_Increasing /\ [][C27_Step]_vars

\* after a clear(), a buffer of several ticks has refused the epoch of its most
\* recent tick offered with another quote
C27_Witness ==
    /\ call.op = "addTick"
    /\ Len(ticks) >= 2
    /\ Len(accepted) = Len(ticks)
    /\ call.epoch = Last(ticks).epoch
    /\ call.quote # Last(ticks).quote

\* C28: clear() empties the buffer (size 0, getCurrentTick() null) and resets
\* the ordering guard: the next addTick is accepted whatever its epoch, and the
\* buffer then holds exactly that tick.
C28_Step ==
    /\ call'.op = "clear" =>
           Len(ticks') = 0 /\ getCurrentTick(ticks') = << >>
    /\ (call.op = "clear" /\ call'.op = "addTick") =>
           ticks' = << [epoch |-> call'.epoch, quote |-> call'.quote] >>

C28_ClearResetsGuard == [][C28_Step]_vars

\* the first addTick after a clear() carried an epoch not later than the most
\* recent epoch of the cleared buffer, and it is the buffer's only tick
C28_Witness ==
    /\ call.op = "addTick"
    /\ call.cleared # << >>
    /\ call.epoch <= call.cleared[1].epoch
    /\ getCurrentTick(ticks) = << [epoch |-> call.epoch, quote |-> call.quote] >>
    /\ Len(ticks) = 1

(***************************************************************************)
(* Properties of one candle (SpecBucket).                                  *)
(***************************************************************************)
RECURSIVE MaxOf(_)
MaxOf(s) == IF Len(s) = 1 THEN s[1]
            ELSE LET m == MaxOf(Tail(s)) IN IF s[1] > m THEN s[1] ELSE m

RECURSIVE MinOf(_)
MinOf(s) == IF Len(s) = 1 THEN s[1]
            ELSE LET m == MinOf(Tail(s)) IN IF s[1] < m THEN s[1] ELSE m

\* C8: makeTCandle(tf, epoch) returns an empty candle whose openTime is
\* floor(epoch / tf) * tf, a multiple of tf with openTime <= epoch < closeTime,
\* and whose closeTime is openTime + tf, whatever the candle held before.
C8_BucketAlignment ==
    call.op = "makeTCandle" =>
        LET tf == call.tfSec
            e == call.nowEpoch
        IN  /\ candle.o = null
            /\ candle.c = null
            /\ candle.openTime % tf = 0
            /\ candle.openTime <= e
            /\ e < candle.closeTime
            /\ candle.closeTime = candle.openTime + tf

\* makeTCandle(60, 3659) gave the bucket [3600, 3660)
C8_Witness ==
    /\ call.op = "makeTCandle"
    /\ call.tfSec = 60
    /\ call.nowEpoch = 3659
    /\ candle.openTime = 3600
    /\ candle.closeTime = 3660

\* the candle after the prices fed so far: open is the first, close the last,
\* high the greatest and low the least of them
C9_Fold ==
    Len(prices) > 0 =>
        /\ candle.o = prices[1]
        /\ candle.h = MaxOf(prices)
        /\ candle.l = MinOf(prices)
        /\ candle.c = Last(prices)

\* one updateTCandle(candle, price) call
C9_Step ==
    call'.op = "updateTCandle" =>
        LET p == call'.price
        IN  /\ candle'.openTime = candle.openTime
            /\ candle'.closeTime = candle.closeTime
            /\ candle'.c = p
            /\ IF candle.o = null
               THEN candle'.o = p /\ candle'.h = p /\ candle'.l = p
               ELSE /\ candle'.o = candle.o
                    /\ candle'.h = (IF p > candle.h THEN p ELSE candle.h)
                    /\ candle'.l = (IF p < candle.l THEN p ELSE candle.l)

\* C9: updateTCandle sets open = high = low = close = price on an empty candle,
\* and otherwise keeps open, raises high to max(high, price), lowers low to
\* min(low, price) and sets close = price; openTime and closeTime never change.
\* So after prices p1..pn: open = p1, high = max, low = min, close = pn.
C9_UpdateOHLC == []C9_Fold /\ [][C9_Step]_vars

\* three prices were fed, the first neither the highest nor the lowest, and the
\* last not the lowest
C9_Witness ==
    /\ Len(prices) = 3
    /\ candle.l < candle.o
    /\ candle.o < candle.h
    /\ candle.l < candle.c

(***************************************************************************)
(* Properties of the aggregator (SpecCandle).                              *)
(***************************************************************************)
\* a processTick call has just been made for the tick Last(fed')
Stepped == Len(fed') = Len(fed) + 1

\* C1: processTick closes a timeframe's active candle exactly when the tick's
\* epoch is >= the candle's closeTime. The emitted candle carries the old
\* openTime and the OHLC the candle had before the tick; the closing tick's price
\* becomes the open of the new active candle. A tick with epoch < closeTime
\* closes nothing for that timeframe and leaves its bucket in place.
C1_CloseOnBoundary ==
    [][ Stepped =>
        \A lab \in Labels :
            LET t == Last(fed')
            IN  IF lab \in DOMAIN activeCandles
                THEN LET old == activeCandles[lab]
                     IN  IF t.epoch >= old.closeTime
                         THEN /\ old.o # null =>
                                   /\ lab \in DOMAIN closed'
                                   /\ closed'[lab] = [time |-> old.openTime, open |-> old.o,
                                                      high |-> old.h, low |-> old.l,
                                                      close |-> old.c]
                              /\ activeCandles'[lab].openTime >= old.closeTime
                              /\ activeCandles'[lab].o = t.quote
                         ELSE /\ lab \notin DOMAIN closed'
                              /\ activeCandles'[lab].openTime = old.openTime
                              /\ activeCandles'[lab].closeTime = old.closeTime
                ELSE lab \notin DOMAIN closed' ]_vars

\* a tick exactly on closeTime closed a candle that held another price
C1_Witness ==
    /\ fed # << >>
    /\ \E lab \in DOMAIN closed :
          /\ Last(fed).epoch = closed[lab].time + SecsOf(lab)
          /\ closed[lab].close # Last(fed).quote
          /\ activeCandles[lab].o = Last(fed).quote

StrictlyIncreasing(ts) == \A i \in 1..(Len(ts) - 1) : ts[i].epoch < ts[i + 1].epoch

\* the active candles started as {} or seeded at the bucket of the first tick
SeededAtFirst ==
    \/ seed = << >>
    \/ fed = << >>
    \/ \A lab \in Labels :
          BucketTime(seed[1], SecsOf(lab)) = BucketTime(fed[1].epoch, SecsOf(lab))

\* C2: for ticks with strictly increasing epochs, fed one by one to processTick
\* with the active candles seeded at the first tick's bucket, the candles emitted
\* so far for each timeframe are, in times, OHLC and order, the list
\* makeHistoryCandles returns for the same ticks.
C2_BatchIncremental ==
    (StrictlyIncreasing(fed) /\ SeededAtFirst) =>
        LET history == makeHistoryCandles(fed)
        IN  \A lab \in Labels : emitted[lab] = history[lab]

\* increasing ticks, seeded candles, and a timeframe with two emitted candles
\* of which the first aggregated two different prices
C2_Witness ==
    /\ StrictlyIncreasing(fed)
    /\ seed # << >>
    /\ SeededAtFirst
    /\ \E lab \in Labels :
          /\ Len(emitted[lab]) >= 1
          /\ emitted[lab][1].high # emitted[lab][1].low
    /\ \E lab \in Labels : Len(emitted[lab]) = 2

\* C3: no candle processTick returned and no candle in the lists of
\* makeHistoryCandles has open = null, whatever the ticks and the seeding.
C3_NoEmptyCandle ==
    LET history == makeHistoryCandles(fed)
    IN  \A lab \in Labels :
            /\ \A i \in 1..Len(emitted[lab]) : emitted[lab][i].open # null
            /\ lab \in DOMAIN closed => closed[lab].open # null
            /\ \A i \in 1..Len(history[lab]) : history[lab][i].open # null

\* the first tick closed the seeded, still empty 5s candle and nothing was emitted
C3_Witness ==
    /\ Len(fed) = 1
    /\ seed # << >>
    /\ fed[1].epoch >= BucketTime(seed[1], 5) + 5
    /\ activeCandles["5s"].openTime > BucketTime(seed[1], 5)
    /\ emitted["5s"] = << >>

\* no emitted candle is a bucket that a tick jumped over
C6_SkippedNeverEmitted ==
    \A lab \in Labels :
        \A i \in 1..Len(emitted[lab]) : emitted[lab][i].time \notin skipped[lab]

\* one call emits at most one candle per timeframe, and a candle that closes is
\* replaced by the bucket containing the tick
C6_Step ==
    Stepped =>
        \A lab \in Labels :
            LET t == Last(fed')
            IN  /\ Len(emitted'[lab]) <= Len(emitted[lab]) + 1
                /\ (lab \in DOMAIN activeCandles /\ t.epoch >= activeCandles[lab].closeTime) =>
                       /\ activeCandles'[lab].openTime <= t.epoch
                       /\ t.epoch < activeCandles'[lab].closeTime
                       /\ activeCandles'[lab].openTime % SecsOf(lab) = 0
                       /\ activeCandles'[lab].closeTime =
                              activeCandles'[lab].openTime + SecsOf(lab)

\* C6: a tick that crosses several bucket boundaries of a timeframe causes one
\* close-and-reset: at most one candle per timeframe per call, the new active
\* candle is the bucket containing the tick's epoch, and the buckets skipped in
\* between are never emitted, by this call or a later one.
C6_GapNotBackfilled == []C6_SkippedNeverEmitted /\ [][C6_Step]_vars

\* a tick skipped a bucket of a timeframe, and that timeframe emitted again later
C6_Witness ==
    \E lab \in Labels :
        /\ skipped[lab] # {}
        /\ Len(emitted[lab]) >= 2
        /\ \E b \in skipped[lab] : emitted[lab][1].time < b /\ b < emitted[lab][2].time

Reverse(s) == [i \in 1..Len(s) |-> s[Len(s) + 1 - i]]

\* The outcome of feeding the ticks ts[k..] one by one to processTick iterating
\* the timeframe table tfs: st = [activeCandles, closed, emitted].
RECURSIVE Replay(_, _, _, _)
Replay(tfs, st, ts, k) ==
    IF k > Len(ts) THEN st
    ELSE LET r == processTickOver(tfs, ts[k].quote, ts[k].epoch, st.activeCandles)
             next == [activeCandles |-> r.activeCandles,
                      closed |-> r.closed,
                      emitted |-> [lab \in LabelsOf(tfs) |->
                                     IF lab \in DOMAIN r.closed
                                     THEN Append(st.emitted[lab], r.closed[lab])
                                     ELSE st.emitted[lab]]]
         IN  IF Forced(next) THEN Replay(tfs, next, ts, k + 1) ELSE st

ReplayFrom(tfs) ==
    Replay(tfs, [activeCandles |-> InitialCandles(tfs, seed), closed |-> EmptyMap,
                 emitted |-> [lab \in LabelsOf(tfs) |-> << >>]], fed, 1)

\* what a timeframe got out of a run: its active candle, whether and what the
\* last call closed for it, and all it emitted
OutcomeOf(st, lab) ==
    << IF lab \in DOMAIN st.activeCandles THEN << st.activeCandles[lab] >> ELSE << >>,
       IF lab \in DOMAIN st.closed THEN << st.closed[lab] >> ELSE << >>,
       st.emitted[lab] >>

\* C10: what processTick produces for one timeframe (closed candles and active
\* candle) is the same when the timeframes are iterated in reverse order and
\* when that timeframe is the only one configured.
C10_TimeframeIndependence ==
    LET here == [activeCandles |-> activeCandles, closed |-> closed, emitted |-> emitted]
        reversed == ReplayFrom(Reverse(TIMEFRAMES))
    IN  \A i \in 1..Len(TIMEFRAMES) :
            LET lab == TIMEFRAMES[i].label
                alone == ReplayFrom(<< TIMEFRAMES[i] >>)
            IN  /\ OutcomeOf(reversed, lab) = OutcomeOf(here, lab)
                /\ OutcomeOf(alone, lab) = OutcomeOf(here, lab)

\* the last call closed the 5s candle and left the 10s candle open
C10_Witness ==
    /\ Len(fed) >= 2
    /\ "5s" \in DOMAIN closed
    /\ "10s" \notin DOMAIN closed
    /\ "10s" \in DOMAIN activeCandles
    /\ activeCandles["10s"].o # activeCandles["10s"].c

\* C11: after every processTick call each configured timeframe has exactly one
\* active candle, that candle is not empty, and its close is the price of the
\* tick just processed.
C11_ActiveCandlePerTimeframe ==
    fed # << >> =>
        /\ DOMAIN activeCandles = Labels
        /\ \A lab \in Labels :
              /\ activeCandles[lab].o # null
              /\ activeCandles[lab].c = Last(fed).quote

\* the last call closed the 5s candle, and the candle opened in its place holds
\* the tick at a price other than the closed candle's
C11_Witness ==
    /\ Len(fed) >= 2
    /\ "5s" \in DOMAIN closed
    /\ activeCandles["5s"].o = Last(fed).quote
    /\ closed["5s"].close # Last(fed).quote

(***************************************************************************)
(* Properties of the server's tick handler (Spec).                         *)
(***************************************************************************)
OHLC(cnd) == << cnd.o, cnd.h, cnd.l, cnd.c >>

\* C7: a live tick that the tick buffer discards (its epoch is <= the last stored
\* epoch) is not aggregated: after the handler ran for it, the open, high, low
\* and close of every active candle are unchanged and no closed candle is emitted.
C7_DiscardedTickNotAggregated ==
    [][ ( /\ call'.op = "tick"
          /\ Len(ticks) > 0
          /\ call'.epoch <= Last(ticks).epoch )
        => /\ \A lab \in Labels : OHLC(activeCandles'[lab]) = OHLC(activeCandles[lab])
           /\ closed' = EmptyMap ]_vars

(***************************************************************************)
(* Properties of the VolatilityEngine (SpecVol).                           *)
(***************************************************************************)
\* the number of log-returns the buffer yields
Returns == IF ticks = << >> THEN 0 ELSE Len(ticks) - 1

\* C12: after update(), whatever addTick and clear() calls came before it, the
\* stored sigma of each configured window w is non-null exactly when the buffer
\* yields at least w log-returns, and with fewer returns getSnapshot() and
\* getSigma(w) report null.
C12_SigmaIffEnoughReturns ==
    call.op = "update" =>
        \A w \in VolWindowSet :
            /\ Get(volEngine.rollingVol, w) # NULL <=> Returns >= w
            /\ Returns < w =>
                  /\ Get(getSnapshot(volEngine).rollingVol, w) = NULL
                  /\ getSigma(volEngine, w) = NULL

\* the strictly rising, and strictly falling, steps among the most recent n tick pairs
Rising(n) ==
    Cardinality({i \in (Len(ticks) - n)..(Len(ticks) - 1) :
                    ticks[i + 1].quote > ticks[i].quote})
Falling(n) ==
    Cardinality({i \in (Len(ticks) - n)..(Len(ticks) - 1) :
                    ticks[i + 1].quote < ticks[i].quote})

\* C14: after update() with at least MOMENTUM_WINDOW log-returns available, the
\* momentum score is (ups - downs) / MOMENTUM_WINDOW over the most recent
\* MOMENTUM_WINDOW tick pairs (equal prices count toward neither); the score
\* always lies in [-1, 1]; the direction is UP iff score > 0.4, DOWN iff
\* score < -0.4, NEUTRAL otherwise.
C14_MomentumScore ==
    LET score == volEngine.momentumScore
        direction == volEngine.momentumDirection
        net == Rising(MOMENTUM_WINDOW) - Falling(MOMENTUM_WINDOW)
    IN  /\ 0 - score[2] <= score[1] /\ score[1] <= score[2]
        /\ (call.op = "update" /\ Returns >= MOMENTUM_WINDOW) =>
              /\ score[1] * MOMENTUM_WINDOW = net * score[2]
              /\ direction = "UP" <=> 10 * net > 4 * MOMENTUM_WINDOW
              /\ direction = "DOWN" <=> 10 * net < 0 - 4 * MOMENTUM_WINDOW
              /\ direction = "NEUTRAL" <=>
                    /\ 10 * net <= 4 * MOMENTUM_WINDOW
                    /\ 10 * net >= 0 - 4 * MOMENTUM_WINDOW

\* update() found falls and one pair of equal prices in the window, and no rise
C14_Witness ==
    /\ call.op = "update"
    /\ Returns >= MOMENTUM_WINDOW
    /\ Rising(MOMENTUM_WINDOW) = 0
    /\ Falling(MOMENTUM_WINDOW) = MOMENTUM_WINDOW - 1
    /\ volEngine.momentumDirection = "DOWN"

\* the label of a ratio (held squared as n/d) by the thresholds 1.3, 1.1, 0.9, 0.7
LabelOf(ratio) ==
    LET n == ratio[1]
        d == ratio[2]
    IN  IF 100 * n >= 169 * d THEN "HIGH"
        ELSE IF 100 * n >= 121 * d THEN "ABOVE AVG"
        ELSE IF 100 * n >= 81 * d THEN "NORMAL"
        ELSE IF 100 * n >= 49 * d THEN "BELOW AVG"
        ELSE "LOW"

\* C15: after every update() that recomputes, volRatio is null, with label N/A,
\* exactly when the short sigma is null or the baseline sigma is null or zero;
\* otherwise volRatio is short / baseline and the label is the first threshold
\* the ratio reaches.  In every state the label is the one of the stored ratio.
C15_VolRatio ==
    LET short == Get(volEngine.rollingVol, VOL_SHORT_WINDOW)
        base == Get(volEngine.rollingVol, VOL_BASELINE_WINDOW)
        ratio == volEngine.volRatio
    IN  /\ volEngine.volRatioLabel = IF ratio = NULL THEN "N/A" ELSE LabelOf(ratio)
        /\ (call.op = "update" /\ Len(ticks) >= 2) =>
              /\ ratio = NULL <=> (short = NULL \/ base = NULL \/ base[1] = 0)
              /\ ratio # NULL =>
                    ratio[1] * base[1] * short[2] = short[1] * base[2] * ratio[2]

\* update() computed a short sigma above 1.3 times a non-zero baseline sigma
C15_Witness ==
    /\ call.op = "update"
    /\ Len(ticks) >= 2
    /\ volEngine.volRatio # NULL
    /\ volEngine.volRatioLabel = "HIGH"

(***************************************************************************)
(* Properties of the engine's readers (SpecSnapshot).                      *)
(***************************************************************************)
\* C16: getSigma(w) returns the sigma update() most recently computed for w, the
\* value getSnapshot().rollingVol[w] holds, a computed sigma of 0 included, and
\* returns null only when no sigma has been computed for w.
C16_GetSigmaReturnsComputed ==
    call.op = "getSigma" =>
        call.ret = Get(getSnapshot(volEngine).rollingVol, call.window)

\* the values getSnapshot() returned since the last update() are all equal
C17_EqualReturns ==
    \A i, j \in 1..Len(returned) : returned[i] = returned[j]

\* a getSnapshot() call, and a write into the object it returned, leave the
\* engine and its buffer as they were, and with them what getSigma reports
C17_Step ==
    call'.op \in {"getSnapshot", "mutate"} =>
        /\ volEngine' = volEngine
        /\ ticks' = ticks
        /\ \A w \in VolWindowSet : getSigma(volEngine', w) = getSigma(volEngine, w)

\* C17: getSnapshot() is a pure read: two calls with no update() between them
\* return equal values, the call leaves the engine's state unchanged, and the
\* returned object is a copy: writing into its rollingVol map or its momentum
\* object changes nothing the engine, a later getSnapshot() or getSigma() reports.
C17_SnapshotIsCopy == []C17_EqualReturns /\ [][C17_Step]_vars

\* getSnapshot() was called again after the reader wrote into the rollingVol map
\* of the object the first call returned
C17_Witness ==
    /\ Len(returned) = 2
    /\ call.op = "getSnapshot"
    /\ Get(volEngine.rollingVol, VOL_SHORT_WINDOW) # NULL
    /\ call.held # << >>
    /\ call.held[1].rollingVol # returned[1].rollingVol
    /\ snapshot[1] = returned[1]

(***************************************************************************)
(* Properties of the trend over a long run (SpecTrend).                    *)
(***************************************************************************)
\* the update() calls so far that computed a short sigma
Recorded == Cardinality({i \in 1..Len(updates) : updates[i] # NULL})

\* the trend of the sigma curr against the sigma prev, both held squared:
\* curr > 1.05 prev, curr < 0.95 prev
TrendOf(curr, prev) ==
    IF 400 * curr[1] * prev[2] > 441 * prev[1] * curr[2] THEN "EXPANDING"
    ELSE IF 400 * curr[1] * prev[2] < 361 * prev[1] * curr[2] THEN "CONTRACTING"
    ELSE "STABLE"

\* C13: volTrend compares the short sigma of the current update() call with the
\* short sigma recorded at the update() call made exactly 30 calls earlier: it is
\* N/A until 31 values have been recorded, from then on an update() sets it to
\* EXPANDING if current > 1.05 x earlier, CONTRACTING if current < 0.95 x earlier,
\* STABLE otherwise, and the retained history never exceeds 60 entries.  (Stated
\* for the calls where both sigmas exist.)
C13_TrendAgainst30CallsEarlier ==
    LET n == Len(updates)
    IN  /\ Len(volEngine.vol30History) <= 60
        /\ Recorded < 31 => volEngine.volTrend = "N/A"
        /\ (/\ call.op = "tick" /\ Recorded >= 31 /\ n > 30
            /\ updates[n] # NULL /\ updates[n - 30] # NULL) =>
                  volEngine.volTrend = TrendOf(updates[n], updates[n - 30])

(***************************************************************************)
(* Properties of the ProbabilityEngine (SpecProb).                         *)
(***************************************************************************)
\* the estimate() call that just returned: its result, and the results of
\* theoretical() and empirical() on the same arguments
Estimated == call.op = "estimate" /\ ~call.ret.threw
EstimateOf == call.ret.value[1]
TheoOf == theoretical(volEngine, call.phi)
EmpOf == empirical(probEngine, store, call.barrierDistance, call.direction).value

\* C18: estimate() blends by availability: with both sources combined is
\* 0.6 * theoretical + 0.4 * empirical.probability and sampleSize is
\* empirical.sampleSize; with theoretical only combined is theoretical and
\* sampleSize 0; with empirical only combined is empirical.probability and
\* sampleSize empirical.sampleSize; with neither combined is null and sampleSize
\* 0.  The returned object always has the keys theoretical, empirical, combined
\* and sampleSize.
C18_Blend ==
    Estimated =>
        LET r == EstimateOf
            c == r.combined
            t == TheoOf
            e == EmpOf
        IN  /\ DOMAIN r = {"theoretical", "empirical", "combined", "sampleSize"}
            /\ r.theoretical = t
            /\ r.empirical = IF e = << >> THEN NULL ELSE e[1].probability
            /\ (t # NULL /\ e # << >>) =>
                  LET q == e[1].probability
                  IN  /\ c # NULL
                      /\ c[1] * 10 * t[2] * q[2] = (6 * t[1] * q[2] + 4 * q[1] * t[2]) * c[2]
                      /\ r.sampleSize = e[1].sampleSize
            /\ (t # NULL /\ e = << >>) => (c = t /\ r.sampleSize = 0)
            /\ (t = NULL /\ e # << >>) =>
                  (c = e[1].probability /\ r.sampleSize = e[1].sampleSize)
            /\ (t = NULL /\ e = << >>) => (c = NULL /\ r.sampleSize = 0)

\* estimate() blended a theoretical value with a different empirical one
C18_Witness ==
    /\ Estimated
    /\ EstimateOf.theoretical # NULL
    /\ EstimateOf.empirical # NULL
    /\ EstimateOf.theoretical # EstimateOf.empirical
    /\ EstimateOf.combined # EstimateOf.theoretical
    /\ EstimateOf.sampleSize > 0

\* C19: empirical() returns null exactly when the historical store is unavailable
\* (at construction, or at the call) or holds fewer than 100 samples for the
\* symbol; with 100 or more samples it returns probability = (rows whose
\* directional MFE >= barrierDistance) / (rows of the symbol) and sampleSize =
\* that row count.
C19_EmpiricalFrom100Samples ==
    (call.op = "empirical" /\ ~call.ret.threw) =>
        LET total == Total(store.rows)
            col == IF call.direction = "up" THEN "mfe_up_120" ELSE "mfe_down_120"
            hits == Hits(store.rows, col, call.barrierDistance)
            unavailable == probEngine.db = "null" \/ store.state # "ok"
            value == call.ret.value
        IN  /\ value = << >> <=> (unavailable \/ total < 100)
            /\ value # << >> =>
                  /\ value[1].sampleSize = total
                  /\ value[1].probability[1] * total = hits * value[1].probability[2]

\* C20: if the historical store is absent when the ProbabilityEngine is
\* constructed, the engine is constructed all the same, the unavailability is
\* logged once, at construction only, and the engine stays theoretical-only:
\* every later estimate() returns empirical = null, sampleSize = 0 and combined =
\* theoretical and does not throw, whatever happens to the store afterwards.
C20_TheoreticalOnly ==
    built = "absent" =>
        /\ warned = 1
        /\ probEngine.db = "null"
        /\ ~probEngine.hasEmpirical
        /\ call.op = "empirical" => (~call.ret.threw /\ call.ret.value = << >>)
        /\ call.op = "estimate" =>
              /\ ~call.ret.threw
              /\ EstimateOf.empirical = NULL
              /\ EstimateOf.sampleSize = 0
              /\ EstimateOf.combined = EstimateOf.theoretical
              /\ EstimateOf.theoretical = TheoOf

\* estimate() gave a theoretical value after a store with enough samples had
\* appeared behind an engine constructed without one
C20_Witness ==
    /\ built = "absent"
    /\ store.state = "ok"
    /\ Total(store.rows) > 100
    /\ call.op = "estimate"
    /\ EstimateOf.combined # NULL

\* C21: when the store was opened at construction and cannot be reached later,
\* the failure is caught: estimate() does not throw, and it returns the
\* theoretical-only estimate (empirical null, sampleSize 0, combined equal to
\* theoretical).
C21_StoreFailureIsCaught ==
    ( /\ call.op = "estimate"
      /\ built = "ok"
      /\ store.state = "unreachable" )
    => /\ ~call.ret.threw
       /\ EstimateOf.empirical = << >>
       /\ EstimateOf.sampleSize = 0
       /\ EstimateOf.combined = TheoOf

(***************************************************************************)
(* Properties of the running server (Spec).                                *)
(***************************************************************************)
\* index.js, the countdown of one timeframe after a live tick at `now`
countdown(c, now, secs) ==
    [remaining |-> IF c.closeTime - now > 0 THEN c.closeTime - now ELSE 0,
     total |-> secs,
     pct |-> IF c.closeTime - now > 0 THEN Frac(c.closeTime - now, secs) ELSE Frac(0, 1)]

\* C30: in the running server every tick aggregated into an active candle lies
\* inside the candle's window (openTime <= epoch < closeTime), so after every
\* live tick the countdown of each timeframe satisfies 0 < remaining <= total,
\* from the first live tick on.
C30_TickInsideWindow ==
    call.op = "tick" =>
        \A lab \in Labels :
            LET c == activeCandles[lab]
                cd == countdown(c, call.epoch, SecsOf(lab))
            IN  /\ c.openTime <= call.epoch
                /\ call.epoch < c.closeTime
                /\ 0 < cd.remaining
                /\ cd.remaining <= cd.total

(***************************************************************************)
(* Properties of the dashboard side (SpecAnalytics).                       *)
(***************************************************************************)
Emitted == call.op = "analytics" /\ call.emitted
ActiveOf == call.payload[1].active
EdgeKeys == {"impliedProb", "ourProb", "theoretical", "empirical", "edge", "warnings",
             "sampleSize"}
Unavailable == << "Probability unavailable - insufficient data" >>

\* C22: analyze() returns edge = combined - impliedProb when combined is not
\* null; when combined is null, edge is 0 (never null) and the warnings contain
\* the probability-unavailable warning.  The result has the same keys in both
\* cases.
C22_EdgeOrZero ==
    Emitted =>
        LET combined == call.estimate[1].combined
            implied == Over(Frac(100, 1), Plus(Frac(100, 1), uiConfig.payoutROI))
        IN  /\ ActiveOf.impliedProb = implied
            /\ combined # NULL => ActiveOf.edge = Minus(combined, implied)
            /\ combined = NULL =>
                   /\ ActiveOf.edge = Frac(0, 1)
                   /\ \E i \in 1..Len(ActiveOf.warnings) : ActiveOf.warnings[i] = Unavailable
            /\ ActiveOf.edge # NULL
            /\ DOMAIN ActiveOf = EdgeKeys

\* an edge summary was computed from an estimate without a probability, for a
\* finite payout
C22_Witness ==
    /\ Emitted
    /\ call.estimate[1].combined = NULL
    /\ uiConfig.payoutROI # NaN
    /\ ActiveOf.edge = Frac(0, 1)

\* C23: an invalid number in an update_config message is ignored: a barrier or
\* payoutROI field that is present but not a valid number leaves the stored
\* value unchanged, so uiConfig.barrier and uiConfig.payoutROI are always
\* finite numbers.
C23_Finite == uiConfig.barrier # NaN /\ uiConfig.payoutROI # NaN

C23_Step ==
    (call'.op = "message" /\ call'.data.type = "update_config") =>
        /\ parseFloat(call'.data.barrier) = NaN =>
               uiConfig'.barrier = uiConfig.barrier
        /\ parseFloat(call'.data.payoutROI) = NaN =>
               uiConfig'.payoutROI = uiConfig.payoutROI

C23_InvalidNumbersIgnored == []C23_Finite /\ [][C23_Step]_vars

\* C24: every analytics payload the periodic task emits is structurally
\* complete: the volatility snapshot has an entry (a value or null) for every
\* configured window, and volRatio, its label, the trend and the momentum; the
\* active edge summary has all its keys.
C24_PayloadComplete ==
    Emitted =>
        LET vol == call.payload[1].volatility
        IN  /\ DOMAIN vol.rollingVol = VolWindowSet
            /\ {"volRatio", "volRatioLabel", "volTrend", "momentum"} \subseteq DOMAIN vol
            /\ DOMAIN vol.momentum = {"score", "direction"}
            /\ DOMAIN ActiveOf = EdgeKeys

\* C29: no gap between history and live data: for a client connected at any
\* moment, once a live tick has been handled after its connection every bucket
\* of every timeframe that contains a tick known to the server (a tick of the
\* buffer) has been delivered to it, as a candle of the history message or by a
\* candle_update or candle_closed message.
C29_NoGapAfterHistory ==
    (client.connected /\ call.op = "tick") =>
        \A lab \in Labels : \A i \in 1..Len(ticks) :
            << lab, BucketTime(ticks[i].epoch, SecsOf(lab)) >> \in client.candles

\* C31: analyze() emits the 'Vol contracting & below average' warning only when
\* the volatility trend is CONTRACTING and the volatility ratio is available
\* and below 0.9; it is never emitted while the ratio is null, in any state the
\* VolatilityEngine reaches.
C31_ContractingWarningNeedsRatio ==
    LET none == [theoretical |-> NULL, empirical |-> NULL, combined |-> NULL,
                 sampleSize |-> 0]
        w == analyze(volEngine, none, uiConfig.payoutROI, tickCount).warnings
    IN  (\E i \in 1..Len(w) : w[i] = << "Vol contracting & below average" >>)
        => /\ volEngine.volTrend = "CONTRACTING"
           /\ volEngine.volRatio # NULL
           /\ Less(volEngine.volRatio, Squared(9, 10))

\* C32: getCurrentFeatures() returns null whenever the buffer holds too few
\* ticks to compute every feature and a feature object otherwise; for every
\* buffer length, the length of exactly the long window included, it reads no
\* tick index outside the buffer and does not throw.
C32_FeaturesOrNull ==
    call.op = "getCurrentFeatures" =>
        /\ ~call.ret.threw
        /\ Len(ticks) <= MICRO_WINDOW => call.ret.value = << >>
        /\ Len(ticks) > MICRO_WINDOW => call.ret.value # << >>

\* C33: exponential backoff: when a connection attempt has failed or the live
\* socket has closed (disconnect() not called), the next attempt is scheduled
\* after min(2^n, 30) seconds, n the number of attempts made since the last
\* successful open, so the delay doubles after each consecutive failed attempt;
\* the attempt counter is 0 whenever a connection has opened.
C33_BackoffDoubles ==
    /\ (call.op = "close" /\ ~derivClient.disconnected) =>
           /\ derivClient.timer
           /\ derivClient.delay =
                  IF 2 ^ derivClient.reconnectAttempts > 30 THEN 30000
                  ELSE (2 ^ derivClient.reconnectAttempts) * 1000
    /\ call.op = "open" => derivClient.reconnectAttempts = 0

\* C35: disconnect() is final: once it has been called no new upstream
\* connection is opened, neither by the close handler nor by a reconnect
\* timer that was already scheduled.
C35_DisconnectIsFinal ==
    [][(derivClient.disconnected /\ call'.op \in {"close", "timer"})
          => derivClient'.ws \notin {"connecting", "open"}]_vars

\* C34: whenever warm-up is reported done, the volatility state has a non-null
\* sigma for every configured window, the baseline window included.  config.js
\* gives WARMUP_TICKS and VOL_BASELINE_WINDOW the same value (300), so warm-up
\* is done from tickCount = VOL_BASELINE_WINDOW on.
C34_WarmupDoneMeansAllWindows ==
    tickCount >= VOL_BASELINE_WINDOW =>
        \A w \in VolWindowSet : Get(volEngine.rollingVol, w) # NULL

\* C36: for any tick sequence, epochs out of order or repeated included, the
\* openTime of each timeframe's active candle never decreases from one
\* processTick call to the next, and the times of the closed candles emitted
\* for a timeframe strictly increase, so no bucket is emitted twice.
C36_EmittedIncreasing ==
    \A lab \in Labels : \A i \in 1..Len(emitted[lab]), j \in 1..Len(emitted[lab]) :
        i < j => emitted[lab][i].time < emitted[lab][j].time

C36_Step ==
    \A lab \in DOMAIN activeCandles :
        /\ lab \in DOMAIN activeCandles'
        /\ activeCandles[lab].openTime <= activeCandles'[lab].openTime

C36_CandleTimeMonotonic == []C36_EmittedIncreasing /\ [][C36_Step]_vars

\* a tick older than the one before it was aggregated, and a later tick closed
\* the candle it went into
C36_Witness ==
    /\ Len(fed) = 3
    /\ fed[2].epoch < fed[1].epoch
    /\ \E lab \in DOMAIN closed : closed[lab].time <= fed[2].epoch
                                  /\ closed[lab].time > fed[2].epoch - SecsOf(lab)

\* C37: every candle emitted by processTick or makeHistoryCandles is well formed:
\* low <= open <= high and low <= close <= high, high and low are the maximum
\* and the minimum of the prices aggregated into the candle, and the sentinels
\* +Infinity and -Infinity appear neither in an emitted candle nor in the
\* candle a candle_update message is built from (an active candle whose o is
\* not null).
C37_WellFormed(c, aggregated) ==
    /\ aggregated # {}
    /\ c.low <= c.open /\ c.open <= c.high
    /\ c.low <= c.close /\ c.close <= c.high
    /\ c.high \in aggregated /\ \A q \in aggregated : q <= c.high
    /\ c.low \in aggregated /\ \A q \in aggregated : c.low <= q
    /\ {c.open, c.high, c.low, c.close} \cap {null, Infinity, NegInfinity} = {}

\* activeCandles after the first i ticks fed
RECURSIVE C37_ActiveAfter(_)
C37_ActiveAfter(i) ==
    IF i = 0 THEN InitialCandles(TIMEFRAMES, seed)
    ELSE processTick(fed[i].quote, fed[i].epoch, C37_ActiveAfter(i - 1)).activeCandles

\* the prices of the ticks that went into the candle of lab opened at time
C37_Aggregated(lab, time) ==
    { fed[i].quote : i \in { k \in 1..Len(fed) : C37_ActiveAfter(k)[lab].openTime = time } }

C37_CandlesWellFormed ==
    /\ \A lab \in Labels : \A k \in 1..Len(emitted[lab]) :
           C37_WellFormed(emitted[lab][k], C37_Aggregated(lab, emitted[lab][k].time))
    /\ \A lab \in DOMAIN activeCandles :
           activeCandles[lab].o # null =>
               C37_WellFormed(ClosedCandle(activeCandles[lab]),
                              C37_Aggregated(lab, activeCandles[lab].openTime))
    /\ call.op = "makeHistoryCandles" =>
           \A lab \in Labels : \A k \in 1..Len(call.ret[lab]) :
               C37_WellFormed(call.ret[lab][k],
                              { call.ticks[i].quote :
                                  i \in { j \in 1..Len(call.ticks) :
                                            BucketTime(call.ticks[j].epoch, SecsOf(lab))
                                                = call.ret[lab][k].time } })

\* processTick emitted a candle that had aggregated two different prices
C37_Witness ==
    \E lab \in Labels : \E k \in 1..Len(emitted[lab]) :
        emitted[lab][k].low < emitted[lab][k].high

\* C38: fetchHistory(pages) always terminates: a page is requested only while
\* fewer than `pages` pages were received and no page came back empty or failed,
\* one request is pending at a time and it settles (the timeout at the latest),
\* so the promise resolves and the live connection started in its callback is
\* reached.
C38_Step ==
    call'.op = "requestPage" =>
        /\ fetch.page < HistoryPages
        /\ call.op \in {"none", "fetchPage"}
        /\ ~fetch.done /\ fetch.result = << >>

C38_FetchHistoryTerminates ==
    /\ [][C38_Step]_vars
    /\ [](fetch.pending => <>(~fetch.pending))
    /\ <>(fetch.done /\ connected)

\* the second page came back empty, failed or timed out; the promise resolved
\* with the first page and the live connection was started
C38_Witness ==
    /\ fetch.done /\ connected
    /\ fetch.page >= 1 /\ fetch.page < HistoryPages
    /\ Len(ticks) > 0

\* C39: startup ordering: the live subscription is opened only after the
\* pre-fill has been appended to the buffer whole, so no live tick is handled
\* before or between the pre-fill ticks, and a live tick whose epoch is not
\* after the last pre-filled epoch is not stored a second time.
C39_PrefillFirst ==
    /\ ~connected => (fed = << >> /\ tickCount = 0 /\ ticks = << >>)
    /\ historySnapshot # EmptyMap =>
           /\ connected
           /\ Len(accepted) >= Len(historySnapshot.ticks)
           /\ SubSeq(accepted, 1, Len(historySnapshot.ticks)) = historySnapshot.ticks

C39_Step ==
    call'.op = "tick" =>
        /\ connected
        /\ (historySnapshot # EmptyMap
              /\ call'.epoch <= Last(historySnapshot.ticks).epoch)
           => (ticks' = ticks /\ accepted' = accepted)

C39_LiveAfterPrefill == []C39_PrefillFirst /\ [][C39_Step]_vars

\* a live tick inside the pre-filled range was handled and not stored
C39_Witness ==
    /\ historySnapshot # EmptyMap
    /\ call.op = "tick"
    /\ call.epoch <= Last(historySnapshot.ticks).epoch
    /\ ticks = historySnapshot.ticks
    /\ Len(fed) = 1

====
